---- MODULE Spec2Model ----
(***************************************************************************)
(* Model of the read-only heterogeneous graph engine: the bipartite        *)
(* relation graph with its three lazily materialized adjacency views       *)
(* (src/src/graph/bipartite.cc) and the heterograph composed of bipartite  *)
(* relations (graph/heterograph.cc).                                       *)
(*                                                                         *)
(* Ids are 0-based as in the source; TLA+ sequences are 1-based, so the    *)
(* element with 0-based index i of an array a is a[i + 1].                 *)
(***************************************************************************)
EXTENDS Integers, Sequences, FiniteSets, TLC

\* ------------------------------------------------------------------------
\* Bounds of the model
\* ------------------------------------------------------------------------
MaxV == 2        \* vertices per side of a stand-alone bipartite graph
MaxE == 2        \* edges of a stand-alone bipartite graph
MaxHV == 2       \* vertices per side of a relation of a heterograph
MaxHE == 2       \* edges of a heterograph, all relations together
MaxSel == 2      \* ids passed to a subgraph operation, all id arrays together
SMaxV == 2       \* vertices of a graph handed to a sampler
SMaxE == 3       \* edges of a graph handed to a sampler
MaxSeeds == 2    \* seeds of one sampler run
MaxHops == 2     \* num_hops of the neighbor sampler, layers of the layer sampler
MaxNeighbor == 2 \* expand_factor of the neighbor sampler, a layer size
MaxWeight == 1   \* an entry of the transition probability vector
MaxHeapLen == 3  \* length of the weight vector an ArrayHeap is built from
MaxHeapWeight == 1 \* a small weight of an ArrayHeap (the large one is 2^FloatBits)
UMaxLen == 4     \* length of a neighbor list handed to GetUniformSample
UMaxV == 2       \* vertex ids in a neighbor list handed to GetUniformSample
UMaxNeighbor == 2 \* max_num_neighbor of a call of GetUniformSample
DMaxV == 2       \* vertices of a graph handed to the batch driver
DMaxE == 1       \* edges of a graph handed to the batch driver
DMaxSeeds == 3   \* seeds handed to the batch driver
MaxStart == 1    \* batch_start_id
MaxBatch == 2    \* batch_size
MaxWorkers == 2  \* max_num_workers
DriverHops == 1  \* num_hops, and layers, of the samplers under the driver
DriverNeighbor == 1 \* expand_factor, and layer size, under the driver

\* ------------------------------------------------------------------------
\* Program constants
\* ------------------------------------------------------------------------
kSrcVType == 0
kDstVType == 1
FloatBits == 24  \* significant bits of a float, the ValueType of the samplers

VARIABLES
    bg,       \* the Bipartite object: [in_csr, out_csr, coo]
    ref,      \* what the factory was given: [num_src, num_dst, edges], with
              \* edges[e + 1] = <<src, dst>> the endpoints of edge e
    made,     \* the views in the order in which they came into existence
    ret,      \* what the last call on the bipartite returned
    hg,       \* the HeteroGraph object: [meta, rels, num_verts_per_type, status]
    hret,     \* what the last call on the heterograph returned
    smp,      \* one run of a sampler: its arguments, locals and NodeFlow
    drv,      \* one run of the batch driver: the graph, workers and nflows
    ah,       \* an ArrayHeap object and the samples drawn from it
    us        \* one call of GetUniformSample: its arguments and locals

vars == <<bg, ref, made, ret, hg, hret, smp, drv, ah, us>>

\* ------------------------------------------------------------------------
\* Small helpers on arrays
\* ------------------------------------------------------------------------
Image(s) == {s[i] : i \in 1..Len(s)}

IsDupFree(s) == \A i, j \in 1..Len(s) : i # j => s[i] # s[j]

\* number of positions of s that hold x
Count(s, x) == Cardinality({i \in 1..Len(s) : s[i] = x})

\* s and t hold the same elements with the same multiplicities
SameBag(s, t) ==
    /\ Len(s) = Len(t)
    /\ \A x \in Image(s) \cup Image(t) : Count(s, x) = Count(t, x)

\* duplicate-free sequences over S of length at most n
DupFreeSeqs(S, n) ==
    UNION {{s \in [1..k -> S] : IsDupFree(s)} : k \in 0..n}

SeqsUpTo(S, n) == UNION {[1..k -> S] : k \in 0..n}

\* ------------------------------------------------------------------------
\* Array primitives (aten::*), consumed by the graph classes
\* ------------------------------------------------------------------------
Range(lo, hi) == [i \in 1..(IF hi > lo THEN hi - lo ELSE 0) |-> lo + i - 1]

Full(value, len) == [i \in 1..len |-> value]

IndexSelect(arr, idx) == [i \in 1..Len(idx) |-> arr[idx[i] + 1]]

HStack(a, b) == a \o b

\* first position (0-based) of x in s
FirstPos(s, x) == (CHOOSE i \in 1..Len(s) : s[i] = x /\ \A j \in 1..(i-1) : s[j] # x) - 1

\* the distinct elements of s in first-seen order
RECURSIVE FirstSeen(_)
FirstSeen(s) ==
    IF s = <<>> THEN <<>>
    ELSE LET front == FirstSeen(SubSeq(s, 1, Len(s) - 1))
             x == s[Len(s)]
         IN IF x \in Image(front) THEN front ELSE Append(front, x)

RECURSIVE Concat(_)
Concat(arrays) ==
    IF arrays = <<>> THEN <<>> ELSE Head(arrays) \o Concat(Tail(arrays))

\* aten::Relabel_: the union of the arrays in first-seen order (mapping), and
\* every array rewritten in place to the densified ids
Relabel_(arrays) ==
    LET mapping == FirstSeen(Concat(arrays))
    IN [mapping |-> mapping,
        arrays  |-> [a \in 1..Len(arrays) |->
                       [i \in 1..Len(arrays[a]) |-> FirstPos(mapping, arrays[a][i])]]]

\* ------------------------------------------------------------------------
\* Sparse matrices and kernels
\* ------------------------------------------------------------------------
NoView == [kind |-> "none"]

Present(v) == v.kind # "none"

COOMatrix(num_rows, num_cols, row, col) ==
    [kind |-> "coo", num_rows |-> num_rows, num_cols |-> num_cols,
     row |-> row, col |-> col]

CSRMatrix(num_rows, num_cols, indptr, indices, data) ==
    [kind |-> "csr", num_rows |-> num_rows, num_cols |-> num_cols,
     indptr |-> indptr, indices |-> indices, data |-> data]

\* row (0-based) that holds the k-th (1-based) entry of a CSR
RowOf(csr, k) ==
    CHOOSE r \in 0..(csr.num_rows - 1) :
        csr.indptr[r + 1] <= k - 1 /\ k - 1 < csr.indptr[r + 2]

\* the entries of a CSR in storage order
CSREntries(csr) ==
    [k \in 1..Len(csr.indices) |->
        [r |-> RowOf(csr, k), c |-> csr.indices[k], d |-> csr.data[k]]]

\* the 1-based positions of the entries of row r
RowSlice(csr, r) ==
    [i \in 1..(csr.indptr[r + 2] - csr.indptr[r + 1]) |-> csr.indptr[r + 1] + i]

RECURSIVE GroupByRow(_, _, _)
GroupByRow(ents, r, num_rows) ==
    IF r >= num_rows THEN <<>>
    ELSE SelectSeq(ents, LAMBDA e : e.r = r) \o GroupByRow(ents, r + 1, num_rows)

\* counting sort of entries by row, keeping the order of the entries of a row
CSRFromEntries(num_rows, num_cols, ents) ==
    LET sorted == GroupByRow(ents, 0, num_rows)
    IN CSRMatrix(num_rows, num_cols,
                 [i \in 1..(num_rows + 1) |->
                     Cardinality({k \in 1..Len(ents) : ents[k].r < i - 1})],
                 [k \in 1..Len(sorted) |-> sorted[k].c],
                 [k \in 1..Len(sorted) |-> sorted[k].d])

\* aten::COOToCSR of a COO without data: data[k] is the COO position
COOToCSR(coo) ==
    CSRFromEntries(coo.num_rows, coo.num_cols,
        [k \in 1..Len(coo.row) |-> [r |-> coo.row[k], c |-> coo.col[k], d |-> k - 1]])

\* aten::CSRTranspose: rows of the input walked in order, scattered by column
CSRTranspose(csr) ==
    LET ents == CSREntries(csr)
    IN CSRFromEntries(csr.num_cols, csr.num_rows,
        [k \in 1..Len(ents) |-> [r |-> ents[k].c, c |-> ents[k].r, d |-> ents[k].d]])

\* aten::CSRToCOO; with data_as_order the COO is ordered by the data array
CSRToCOO(csr, data_as_order) ==
    LET ents == CSREntries(csr)
        n == Len(ents)
        at(i) == ents[CHOOSE k \in 1..n : ents[k].d = i - 1]
    IN IF data_as_order
       THEN [num_rows |-> csr.num_rows, num_cols |-> csr.num_cols,
             row |-> [i \in 1..n |-> at(i).r], col |-> [i \in 1..n |-> at(i).c],
             data |-> <<>>]
       ELSE [num_rows |-> csr.num_rows, num_cols |-> csr.num_cols,
             row |-> [i \in 1..n |-> ents[i].r], col |-> [i \in 1..n |-> ents[i].c],
             data |-> csr.data]

CSRGetRowColumnIndices(csr, r) ==
    [i \in 1..Len(RowSlice(csr, r)) |-> csr.indices[RowSlice(csr, r)[i]]]

CSRGetRowData(csr, r) ==
    [i \in 1..Len(RowSlice(csr, r)) |-> csr.data[RowSlice(csr, r)[i]]]

CSRGetRowNNZ(csr, r) == csr.indptr[r + 2] - csr.indptr[r + 1]

CSRIsNonZero(csr, r, c) == c \in Image(CSRGetRowColumnIndices(csr, r))

\* the data of every entry (r, c)
CSRGetData(csr, r, c) ==
    LET hits == SelectSeq(RowSlice(csr, r), LAMBDA k : csr.indices[k] = c)
    IN [i \in 1..Len(hits) |-> csr.data[hits[i]]]

\* last position (0-based) of x in s: the hash map of CSRSliceMatrix keeps the
\* last writer
LastPos(s, x) == (CHOOSE i \in 1..Len(s) : s[i] = x /\ \A j \in (i+1)..Len(s) : s[j] # x) - 1

RECURSIVE SliceEntries(_, _, _, _)
SliceEntries(csr, rows, cols, i) ==
    IF i > Len(rows) THEN <<>>
    ELSE LET keep == SelectSeq(RowSlice(csr, rows[i]),
                               LAMBDA k : csr.indices[k] \in Image(cols))
         IN [j \in 1..Len(keep) |->
                [r |-> i - 1, c |-> LastPos(cols, csr.indices[keep[j]]),
                 d |-> csr.data[keep[j]]]]
            \o SliceEntries(csr, rows, cols, i + 1)

\* aten::CSRSliceMatrix: the sub-matrix of the given rows and columns, rows
\* and columns renumbered by position, data carried over
CSRSliceMatrix(csr, rows, cols) ==
    CSRFromEntries(Len(rows), Len(cols), SliceEntries(csr, rows, cols, 1))

\* ------------------------------------------------------------------------
\* Bipartite::COO, the COO graph (the object is its adjacency matrix adj_)
\* ------------------------------------------------------------------------
EdgeArray(src, dst, id) == [src |-> src, dst |-> dst, id |-> id]

Immutable(adj) == [adj |-> adj, err |-> "Immutable"]

\* faulty variant: the vertices are added
COO_AddVertices_Grows(adj, vtype, num_vertices) ==
    [adj |-> IF vtype = kSrcVType
             THEN [adj EXCEPT !.num_rows = @ + num_vertices]
             ELSE [adj EXCEPT !.num_cols = @ + num_vertices],
     err |-> ""]

COO_AddVertices(adj, vtype, num_vertices) == Immutable(adj)

COO_AddEdge(adj, src, dst) == Immutable(adj)

COO_AddEdges(adj, src_ids, dst_ids) == Immutable(adj)

COO_Clear(adj) == Immutable(adj)

COO_NumVertices(adj, vtype) ==
    IF vtype = kSrcVType THEN adj.num_rows ELSE adj.num_cols

COO_NumEdges(adj) == Len(adj.row)

COO_FindEdges(adj, eids) ==
    EdgeArray(IndexSelect(adj.row, eids), IndexSelect(adj.col, eids), eids)

COO_Edges(adj, order) ==
    EdgeArray(adj.row, adj.col, Range(0, COO_NumEdges(adj)))

\* faulty variant: the transpose flag is ignored
COO_GetAdj_NoTranspose(adj, transpose, fmt) == HStack(adj.row, adj.col)

COO_GetAdj(adj, transpose, fmt) ==
    IF transpose THEN HStack(adj.col, adj.row) ELSE HStack(adj.row, adj.col)

\* faulty variant: src and dst endpoints are densified together, into one id
\* space
COO_EdgeSubgraph_SharedIds(adj, eids, preserve_nodes) ==
    LET new_src == IndexSelect(adj.row, eids[1])
        new_dst == IndexSelect(adj.col, eids[1])
        both == Relabel_(<<new_src, new_dst>>)
    IN [graph |-> COOMatrix(Len(both.mapping), Len(both.mapping),
                            both.arrays[1], both.arrays[2]),
        induced_vertices |-> <<both.mapping, both.mapping>>,
        induced_edges |-> eids]

COO_EdgeSubgraph(adj, eids, preserve_nodes) ==
    LET new_src == IndexSelect(adj.row, eids[1])
        new_dst == IndexSelect(adj.col, eids[1])
        rs == Relabel_(<<new_src>>)
        rd == Relabel_(<<new_dst>>)
    IN IF ~preserve_nodes
       THEN [graph |-> COOMatrix(Len(rs.mapping), Len(rd.mapping),
                                 rs.arrays[1], rd.arrays[1]),
             induced_vertices |-> <<rs.mapping, rd.mapping>>,
             induced_edges |-> eids]
       ELSE [graph |-> COOMatrix(COO_NumVertices(adj, 0), COO_NumVertices(adj, 1),
                                 new_src, new_dst),
             induced_vertices |-> <<Range(0, COO_NumVertices(adj, 0)),
                                    Range(0, COO_NumVertices(adj, 1))>>,
             induced_edges |-> eids]

\* ------------------------------------------------------------------------
\* Bipartite::CSR, the CSR graph (the object is its adjacency matrix adj_)
\* ------------------------------------------------------------------------
CSR_AddVertices(adj, vtype, num_vertices) == Immutable(adj)

CSR_AddEdge(adj, src, dst) == Immutable(adj)

CSR_AddEdges(adj, src_ids, dst_ids) == Immutable(adj)

CSR_Clear(adj) == Immutable(adj)

CSR_NumVertices(adj, vtype) ==
    IF vtype = kSrcVType THEN adj.num_rows ELSE adj.num_cols

CSR_NumEdges(adj) == Len(adj.indices)

CSR_HasEdgeBetween(adj, src, dst) == CSRIsNonZero(adj, src, dst)

\* the vector form: one answer per pair (src_ids[i], dst_ids[i])
CSR_HasEdgesBetween(adj, src_ids, dst_ids) ==
    [i \in 1..Len(src_ids) |-> CSRIsNonZero(adj, src_ids[i], dst_ids[i])]

CSR_Successors(adj, src) == CSRGetRowColumnIndices(adj, src)

CSR_EdgeId(adj, src, dst) == CSRGetData(adj, src, dst)

CSR_OutEdges(adj, vid) ==
    LET ret_dst == CSRGetRowColumnIndices(adj, vid)
    IN EdgeArray(Full(vid, Len(ret_dst)), ret_dst, CSRGetRowData(adj, vid))

CSR_Edges(adj, order) ==
    LET coo == CSRToCOO(adj, FALSE)
    IN EdgeArray(coo.row, coo.col, coo.data)

CSR_OutDegree(adj, vid) == CSRGetRowNNZ(adj, vid)

CSR_GetAdj(adj, transpose, fmt) == <<adj.indptr, adj.indices, adj.data>>

\* faulty variant: the induced edges are the ids of the sub-edges
CSR_VertexSubgraph_SubIds(adj, vids) ==
    LET submat == CSRSliceMatrix(adj, vids[1], vids[2])
    IN [graph |-> CSRMatrix(submat.num_rows, submat.num_cols, submat.indptr,
                            submat.indices, Range(0, Len(submat.data))),
        induced_vertices |-> vids,
        induced_edges |-> <<Range(0, Len(submat.data))>>]

CSR_VertexSubgraph(adj, vids) ==
    LET submat == CSRSliceMatrix(adj, vids[1], vids[2])
    IN [graph |-> CSRMatrix(submat.num_rows, submat.num_cols, submat.indptr,
                            submat.indices, Range(0, Len(submat.data))),
        induced_vertices |-> vids,
        induced_edges |-> <<submat.data>>]

\* ------------------------------------------------------------------------
\* Bipartite: the three views and their lazy materialization
\* ------------------------------------------------------------------------
Bipartite(in_csr, out_csr, coo) ==
    [in_csr |-> in_csr, out_csr |-> out_csr, coo |-> coo]

CreateFromCOO(num_src, num_dst, row, col) ==
    Bipartite(NoView, NoView, COOMatrix(num_src, num_dst, row, col))

CreateFromCSR(num_src, num_dst, indptr, indices, edge_ids) ==
    Bipartite(NoView, CSRMatrix(num_src, num_dst, indptr, indices, edge_ids), NoView)

\* faulty variant: the transposed out-CSR numbers its entries anew instead of
\* carrying the edge ids along
GetInCSR_FreshData(b) ==
    IF ~Present(b.in_csr)
    THEN IF Present(b.out_csr)
         THEN [b EXCEPT !.in_csr =
                  [CSRTranspose(b.out_csr) EXCEPT !.data = Range(0, Len(@))]]
         ELSE [b EXCEPT !.in_csr =
                  COOToCSR(COOMatrix(b.coo.num_cols, b.coo.num_rows,
                                     b.coo.col, b.coo.row))]
    ELSE b

\* the bipartite after the call; the in-CSR is its in_csr field
GetInCSR(b) ==
    IF ~Present(b.in_csr)
    THEN IF Present(b.out_csr)
         THEN [b EXCEPT !.in_csr = CSRTranspose(b.out_csr)]
         ELSE [b EXCEPT !.in_csr =
                  COOToCSR(COOMatrix(b.coo.num_cols, b.coo.num_rows,
                                     b.coo.col, b.coo.row))]
    ELSE b

\* faulty variant: the out-CSR takes the place of the COO it was built from
GetOutCSR_ReplacesCOO(b) ==
    IF ~Present(b.out_csr)
    THEN IF Present(b.in_csr)
         THEN [b EXCEPT !.out_csr = CSRTranspose(b.in_csr)]
         ELSE [b EXCEPT !.out_csr = COOToCSR(b.coo), !.coo = [kind |-> "none"]]
    ELSE b

GetOutCSR(b) ==
    IF ~Present(b.out_csr)
    THEN IF Present(b.in_csr)
         THEN [b EXCEPT !.out_csr = CSRTranspose(b.in_csr)]
         ELSE [b EXCEPT !.out_csr = COOToCSR(b.coo)]
    ELSE b

\* faulty variant: rows and columns of the in-CSR are not swapped back
GetCOO_NoSwap(b) ==
    IF ~Present(b.coo)
    THEN LET newadj == CSRToCOO(IF Present(b.in_csr) THEN b.in_csr ELSE b.out_csr, TRUE)
         IN [b EXCEPT !.coo = COOMatrix(newadj.num_rows, newadj.num_cols,
                                        newadj.row, newadj.col)]
    ELSE b

GetCOO(b) ==
    IF ~Present(b.coo)
    THEN IF Present(b.in_csr)
         THEN LET newadj == CSRToCOO(b.in_csr, TRUE)
              IN [b EXCEPT !.coo = COOMatrix(newadj.num_cols, newadj.num_rows,
                                             newadj.col, newadj.row)]
         ELSE LET newadj == CSRToCOO(b.out_csr, TRUE)
              IN [b EXCEPT !.coo = COOMatrix(newadj.num_rows, newadj.num_cols,
                                             newadj.row, newadj.col)]
    ELSE b

GetAny(b) ==
    IF Present(b.in_csr) THEN b.in_csr
    ELSE IF Present(b.out_csr) THEN b.out_csr
    ELSE b.coo

\* ------------------------------------------------------------------------
\* Bipartite: the operations.  Each yields the bipartite after the call (a
\* query may have materialized a view) and the value returned.
\* ------------------------------------------------------------------------
Result(g, val) == [g |-> g, val |-> val, err |-> ""]

Bipartite_NumVertices(b, vtype) ==
    Result(b, IF GetAny(b).kind = "coo" THEN COO_NumVertices(GetAny(b), vtype)
              ELSE CSR_NumVertices(GetAny(b), vtype))

Bipartite_NumEdges(b) ==
    Result(b, IF GetAny(b).kind = "coo" THEN COO_NumEdges(GetAny(b))
              ELSE CSR_NumEdges(GetAny(b)))

Bipartite_HasEdgeBetween(b, src, dst) ==
    IF Present(b.in_csr)
    THEN Result(b, CSR_HasEdgeBetween(b.in_csr, dst, src))
    ELSE Result(GetOutCSR(b), CSR_HasEdgeBetween(GetOutCSR(b).out_csr, src, dst))

\* the answer of has_edges_between together with the view it was read from
AnswerFrom(view, has) == [from |-> view, has |-> has]

\* faulty variant: the out-CSR is preferred
Bipartite_HasEdgesBetween_OutFirst(b, src, dst) ==
    IF Present(b.out_csr)
    THEN Result(b, AnswerFrom("out_csr", CSR_HasEdgesBetween(b.out_csr, src, dst)))
    ELSE Result(GetInCSR(b),
                AnswerFrom("in_csr", CSR_HasEdgesBetween(GetInCSR(b).in_csr, dst, src)))

Bipartite_HasEdgesBetween(b, src, dst) ==
    IF Present(b.in_csr)
    THEN Result(b, AnswerFrom("in_csr", CSR_HasEdgesBetween(b.in_csr, dst, src)))
    ELSE Result(GetOutCSR(b),
                AnswerFrom("out_csr", CSR_HasEdgesBetween(GetOutCSR(b).out_csr, src, dst)))

Bipartite_Predecessors(b, dst) ==
    Result(GetInCSR(b), CSR_Successors(GetInCSR(b).in_csr, dst))

Bipartite_Successors(b, src) ==
    Result(GetOutCSR(b), CSR_Successors(GetOutCSR(b).out_csr, src))

Bipartite_EdgeId(b, src, dst) ==
    IF Present(b.in_csr)
    THEN Result(b, CSR_EdgeId(b.in_csr, dst, src))
    ELSE Result(GetOutCSR(b), CSR_EdgeId(GetOutCSR(b).out_csr, src, dst))

Bipartite_FindEdges(b, eids) ==
    Result(GetCOO(b), COO_FindEdges(GetCOO(b).coo, eids))

\* faulty variant: the result of the in-CSR is returned as it is
Bipartite_InEdges_NoSwap(b, vid) ==
    Result(GetInCSR(b), CSR_OutEdges(GetInCSR(b).in_csr, vid))

Bipartite_InEdges(b, vid) ==
    LET r == CSR_OutEdges(GetInCSR(b).in_csr, vid)
    IN Result(GetInCSR(b), EdgeArray(r.dst, r.src, r.id))

Bipartite_OutEdges(b, vid) ==
    Result(GetOutCSR(b), CSR_OutEdges(GetOutCSR(b).out_csr, vid))

\* faulty variant: the in-CSR result is returned without swapping its endpoints
Bipartite_Edges_Unswapped(b, order) ==
    IF order = ""
    THEN Result(b, IF GetAny(b).kind = "coo" THEN COO_Edges(GetAny(b), order)
                   ELSE CSR_Edges(GetAny(b), order))
    ELSE IF order = "srcdst"
    THEN Result(GetOutCSR(b), CSR_Edges(GetOutCSR(b).out_csr, order))
    ELSE Result(GetCOO(b), COO_Edges(GetCOO(b).coo, order))

Bipartite_Edges(b, order) ==
    IF order = ""
    THEN IF Present(b.in_csr)
         THEN LET edges == CSR_Edges(b.in_csr, order)
              IN Result(b, EdgeArray(edges.dst, edges.src, edges.id))
         ELSE Result(b, IF GetAny(b).kind = "coo" THEN COO_Edges(GetAny(b), order)
                        ELSE CSR_Edges(GetAny(b), order))
    ELSE IF order = "srcdst"
    THEN Result(GetOutCSR(b), CSR_Edges(GetOutCSR(b).out_csr, order))
    ELSE Result(GetCOO(b), COO_Edges(GetCOO(b).coo, order))

Bipartite_InDegree(b, vid) ==
    Result(GetInCSR(b), CSR_OutDegree(GetInCSR(b).in_csr, vid))

Bipartite_OutDegree(b, vid) ==
    Result(GetOutCSR(b), CSR_OutDegree(GetOutCSR(b).out_csr, vid))

\* faulty variant: the transpose flag is not flipped for CSR
Bipartite_GetAdj_Unflipped(b, transpose, fmt) ==
    IF fmt = "csr"
    THEN IF transpose
         THEN Result(GetInCSR(b), CSR_GetAdj(GetInCSR(b).in_csr, FALSE, "csr"))
         ELSE Result(GetOutCSR(b), CSR_GetAdj(GetOutCSR(b).out_csr, FALSE, "csr"))
    ELSE Result(GetCOO(b), COO_GetAdj(GetCOO(b).coo, ~transpose, fmt))

Bipartite_GetAdj(b, transpose, fmt) ==
    IF fmt = "csr"
    THEN IF transpose
         THEN Result(GetOutCSR(b), CSR_GetAdj(GetOutCSR(b).out_csr, FALSE, "csr"))
         ELSE Result(GetInCSR(b), CSR_GetAdj(GetInCSR(b).in_csr, FALSE, "csr"))
    ELSE Result(GetCOO(b), COO_GetAdj(GetCOO(b).coo, ~transpose, fmt))

Bipartite_VertexSubgraph(b, vids) ==
    LET sg == CSR_VertexSubgraph(GetOutCSR(b).out_csr, vids)
    IN Result(GetOutCSR(b),
              [graph |-> Bipartite(NoView, sg.graph, NoView),
               induced_vertices |-> sg.induced_vertices,
               induced_edges |-> sg.induced_edges])

Bipartite_EdgeSubgraph(b, eids, preserve_nodes) ==
    LET sg == COO_EdgeSubgraph(GetCOO(b).coo, eids, preserve_nodes)
    IN Result(GetCOO(b),
              [graph |-> Bipartite(NoView, NoView, sg.graph),
               induced_vertices |-> sg.induced_vertices,
               induced_edges |-> sg.induced_edges])

\* A mutator reaches the graph object behind the bipartite, which refuses it
Refused(b, r) ==
    [g |-> IF Present(b.in_csr) THEN [b EXCEPT !.in_csr = r.adj]
           ELSE IF Present(b.out_csr) THEN [b EXCEPT !.out_csr = r.adj]
           ELSE [b EXCEPT !.coo = r.adj],
     val |-> <<>>, err |-> r.err]

Bipartite_AddVertices(b, vtype, num_vertices) ==
    Refused(b, IF GetAny(b).kind = "coo"
               THEN COO_AddVertices(GetAny(b), vtype, num_vertices)
               ELSE CSR_AddVertices(GetAny(b), vtype, num_vertices))

Bipartite_AddEdge(b, src, dst) ==
    Refused(b, IF GetAny(b).kind = "coo" THEN COO_AddEdge(GetAny(b), src, dst)
               ELSE CSR_AddEdge(GetAny(b), src, dst))

Bipartite_AddEdges(b, src_ids, dst_ids) ==
    Refused(b, IF GetAny(b).kind = "coo" THEN COO_AddEdges(GetAny(b), src_ids, dst_ids)
               ELSE CSR_AddEdges(GetAny(b), src_ids, dst_ids))

Bipartite_Clear(b) ==
    Refused(b, IF GetAny(b).kind = "coo" THEN COO_Clear(GetAny(b))
               ELSE CSR_Clear(GetAny(b)))

\* ------------------------------------------------------------------------
\* HeteroGraph: bipartite relations under a meta-graph.  A meta-graph is
\* [num_vtypes, edges] with edges[etype + 1] = <<src_vtype, dst_vtype>>.
\* ------------------------------------------------------------------------
NumVertexTypes(h) == h.meta.num_vtypes

NumEdgeTypes(h) == Len(h.meta.edges)

\* meta_graph->FindEdge(etype)
MetaFindEdge(meta, etype) == meta.edges[etype + 1]

\* meta_graph->OutEdgeVec(vtype): the edge types leaving vtype, ascending
MetaOutEdgeVec(meta, vtype) ==
    LET all == [i \in 1..Len(meta.edges) |-> i - 1]
    IN SelectSeq(all, LAMBDA etype : meta.edges[etype + 1][1] = vtype)

\* HeteroGraph::HeteroGraph: num_verts_per_type_ starts at -1 and takes the
\* src-side count of the first outgoing relation; a later outgoing relation
\* with another count fails the CHECK_EQ
HeteroGraph(meta, rel_graphs) ==
    LET outs(vtype) == MetaOutEdgeVec(meta, vtype)
        nv(etype) == Bipartite_NumVertices(rel_graphs[etype + 1], kSrcVType).val
    IN [meta |-> meta, rels |-> rel_graphs,
        num_verts_per_type |->
            [v \in 1..meta.num_vtypes |->
                IF outs(v - 1) = <<>> THEN -1 ELSE nv(outs(v - 1)[1])],
        status |->
            IF /\ Len(meta.edges) = Len(rel_graphs) /\ rel_graphs # <<>>
               /\ \A v \in 0..(meta.num_vtypes - 1) :
                     \A i \in 1..Len(outs(v)) : nv(outs(v)[i]) = nv(outs(v)[1])
            THEN "ok" ELSE "failed"]

\* HeteroGraph::NumVertices
HeteroGraph_NumVertices(h, vtype) == h.num_verts_per_type[vtype + 1]

GetRelationGraph(h, etype) == h.rels[etype + 1]

\* the loop of HeteroGraph::VertexSubgraph from edge type etype on; acc holds
\* the relations of the graph (a relation may materialize its out-CSR), the
\* sub-relations and the induced edges so far
RECURSIVE VertexSubgraphLoop(_, _, _, _)
VertexSubgraphLoop(h, vids, etype, acc) ==
    IF etype >= NumEdgeTypes(h) THEN acc
    ELSE LET pair == MetaFindEdge(h.meta, etype)
             rel_vsg == Bipartite_VertexSubgraph(acc.rels[etype + 1],
                            <<vids[pair[1] + 1], vids[pair[2] + 1]>>)
         IN VertexSubgraphLoop(h, vids, etype + 1,
                [rels |-> [acc.rels EXCEPT ![etype + 1] = rel_vsg.g],
                 subrels |-> Append(acc.subrels, rel_vsg.val.graph),
                 induced_edges |-> Append(acc.induced_edges,
                                          rel_vsg.val.induced_edges[1])])

HeteroGraph_VertexSubgraph(h, vids) ==
    LET done == VertexSubgraphLoop(h, vids, 0,
                    [rels |-> h.rels, subrels |-> <<>>, induced_edges |-> <<>>])
    IN Result([h EXCEPT !.rels = done.rels],
              [graph |-> HeteroGraph(h.meta, done.subrels),
               induced_vertices |-> vids,
               induced_edges |-> done.induced_edges])

\* the loop of EdgeSubgraphPreserveNodes from edge type etype on; writes logs
\* every assignment to induced_vertices as <<vtype, array>>
RECURSIVE PreserveNodesLoop(_, _, _, _)
PreserveNodesLoop(h, eids, etype, acc) ==
    IF etype >= NumEdgeTypes(h) THEN acc
    ELSE LET pair == MetaFindEdge(h.meta, etype)
             rel_vsg == Bipartite_EdgeSubgraph(acc.rels[etype + 1],
                            <<eids[etype + 1]>>, TRUE)
             iv1 == [acc.induced_vertices EXCEPT
                        ![pair[1] + 1] = rel_vsg.val.induced_vertices[1]]
             iv2 == [iv1 EXCEPT ![pair[2] + 1] = rel_vsg.val.induced_vertices[2]]
         IN PreserveNodesLoop(h, eids, etype + 1,
                [rels |-> [acc.rels EXCEPT ![etype + 1] = rel_vsg.g],
                 subrels |-> Append(acc.subrels, rel_vsg.val.graph),
                 induced_vertices |-> iv2,
                 writes |-> acc.writes
                            \o << <<pair[1], rel_vsg.val.induced_vertices[1]>>,
                                  <<pair[2], rel_vsg.val.induced_vertices[2]>> >>])

EdgeSubgraphPreserveNodes(h, eids) ==
    LET done == PreserveNodesLoop(h, eids, 0,
                    [rels |-> h.rels, subrels |-> <<>>,
                     induced_vertices |-> [v \in 1..NumVertexTypes(h) |-> <<>>],
                     writes |-> <<>>])
    IN Result([h EXCEPT !.rels = done.rels],
              [graph |-> HeteroGraph(h.meta, done.subrels),
               induced_vertices |-> done.induced_vertices,
               induced_edges |-> eids,
               writes |-> done.writes])

\* steps (1) and (2) of EdgeSubgraphNoPreserveNodes from edge type etype on:
\* incnodes[vtype + 1] lists the arrays pushed to vtype2incnodes[vtype], each
\* with the edge type and side it belongs to (the arrays are shared with
\* subedges and rewritten in place by Relabel_)
RECURSIVE IncNodesLoop(_, _, _, _)
IncNodesLoop(h, eids, etype, acc) ==
    IF etype >= NumEdgeTypes(h) THEN acc
    ELSE LET pair == MetaFindEdge(h.meta, etype)
             found == Bipartite_FindEdges(acc.rels[etype + 1], eids[etype + 1])
             in1 == [acc.incnodes EXCEPT ![pair[1] + 1] =
                        Append(@, [etype |-> etype, side |-> "src",
                                   arr |-> found.val.src])]
             in2 == [in1 EXCEPT ![pair[2] + 1] =
                        Append(@, [etype |-> etype, side |-> "dst",
                                   arr |-> found.val.dst])]
         IN IncNodesLoop(h, eids, etype + 1,
                [rels |-> [acc.rels EXCEPT ![etype + 1] = found.g],
                 incnodes |-> in2])

\* step (3) of EdgeSubgraphNoPreserveNodes: the arrays pushed to one vertex
\* type are relabelled together
RelabelIncNodes(incnodes) ==
    [v \in 1..Len(incnodes) |->
        Relabel_([i \in 1..Len(incnodes[v]) |-> incnodes[v][i].arr])]

\* the array of edge type etype and side `side` after the relabelling
SubEdge(incnodes, relabeled, etype, side, vtype) ==
    relabeled[vtype + 1].arrays[
        CHOOSE j \in 1..Len(incnodes[vtype + 1]) :
            /\ incnodes[vtype + 1][j].etype = etype
            /\ incnodes[vtype + 1][j].side = side]

\* step (4) of EdgeSubgraphNoPreserveNodes
SubRelations(h, incnodes, relabeled) ==
    [t \in 1..NumEdgeTypes(h) |->
        CreateFromCOO(Len(relabeled[MetaFindEdge(h.meta, t - 1)[1] + 1].mapping),
                      Len(relabeled[MetaFindEdge(h.meta, t - 1)[2] + 1].mapping),
                      SubEdge(incnodes, relabeled, t - 1, "src",
                              MetaFindEdge(h.meta, t - 1)[1]),
                      SubEdge(incnodes, relabeled, t - 1, "dst",
                              MetaFindEdge(h.meta, t - 1)[2]))]

NoPreserveNodesResult(h, eids, rels, incnodes, relabeled) ==
    Result([h EXCEPT !.rels = rels],
           [graph |-> HeteroGraph(h.meta, SubRelations(h, incnodes, relabeled)),
            induced_vertices |-> [v \in 1..NumVertexTypes(h) |-> relabeled[v].mapping],
            induced_edges |-> eids])

NoPreserveNodesRelabel(h, eids, done) ==
    NoPreserveNodesResult(h, eids, done.rels, done.incnodes,
                          RelabelIncNodes(done.incnodes))

\* faulty variant: every relation densifies its own endpoints, as the
\* bipartite edge_subgraph does, and the last writer names the induced vertices
EdgeSubgraphNoPreserveNodes_PerRelation(h, eids) ==
    LET sub(etype) == Bipartite_EdgeSubgraph(h.rels[etype + 1], <<eids[etype + 1]>>, FALSE)
        last(vtype, side) ==
            CHOOSE e \in 0..(NumEdgeTypes(h) - 1) :
                /\ MetaFindEdge(h.meta, e)[side] = vtype
                /\ \A f \in (e + 1)..(NumEdgeTypes(h) - 1) :
                      MetaFindEdge(h.meta, f)[side] # vtype
        subrels == [t \in 1..NumEdgeTypes(h) |-> sub(t - 1).val.graph]
    IN Result(h,
              [graph |-> HeteroGraph(h.meta, subrels),
               induced_vertices |->
                   [v \in 1..NumVertexTypes(h) |->
                       IF \E e \in 0..(NumEdgeTypes(h) - 1) : MetaFindEdge(h.meta, e)[2] = v - 1
                       THEN sub(last(v - 1, 2)).val.induced_vertices[2]
                       ELSE sub(last(v - 1, 1)).val.induced_vertices[1]],
               induced_edges |-> eids])

EdgeSubgraphNoPreserveNodes(h, eids) ==
    NoPreserveNodesRelabel(h, eids,
        IncNodesLoop(h, eids, 0,
            [rels |-> h.rels,
             incnodes |-> [v \in 1..NumVertexTypes(h) |-> <<>>]]))

HeteroGraph_EdgeSubgraph(h, eids, preserve_nodes) ==
    IF preserve_nodes THEN EdgeSubgraphPreserveNodes(h, eids)
    ELSE EdgeSubgraphNoPreserveNodes(h, eids)

\* ------------------------------------------------------------------------
\* The stand-alone bipartite graph: construction
\* ------------------------------------------------------------------------
NoCall == [op |-> "none", arg |-> <<>>, val |-> <<>>, err |-> ""]

NoHetero == [meta |-> <<>>, rels |-> <<>>, num_verts_per_type |-> <<>>, status |-> "none"]

NoSampler == [pc |-> "none"]

NoDriver == [pc |-> "none"]

NoHeap == [pc |-> "none"]

NoUniform == [pc |-> "none"]

\* non-decreasing row assignments of n CSR entries
RowAssignments(n, num_rows) ==
    {f \in [1..n -> 0..(num_rows - 1)] : \A i \in 1..(n - 1) : f[i] <= f[i + 1]}

\* the arrays of n edges a caller may hand to create_bipartite_from_coo
COOInputsN(maxv, n) ==
    UNION {UNION {
        {[num_src |-> ns, num_dst |-> nd, row |-> row, col |-> col] :
            row \in [1..n -> 0..(ns - 1)], col \in [1..n -> 0..(nd - 1)]}
        : nd \in 1..maxv} : ns \in 1..maxv}

COOInputs(maxv, maxe) == UNION {COOInputsN(maxv, n) : n \in 0..maxe}

\* the arrays a caller may hand to create_bipartite_from_csr: edge_ids is a
\* permutation of 0..E-1
CSRInputs(maxv, maxe) ==
    UNION {UNION {UNION {
        {[num_src |-> ns, num_dst |-> nd,
          indptr |-> [i \in 1..(ns + 1) |-> Cardinality({k \in 1..n : rowof[k] < i - 1})],
          indices |-> indices, edge_ids |-> [k \in 1..n |-> perm[k] - 1],
          rowof |-> rowof] :
            rowof \in RowAssignments(n, ns), indices \in [1..n -> 0..(nd - 1)],
            perm \in {q \in [1..n -> 1..n] : IsDupFree(q)}}
        : n \in 0..maxe} : nd \in 1..maxv} : ns \in 1..maxv}

InitFromCOO ==
    \E in \in COOInputs(MaxV, MaxE) :
        /\ bg = CreateFromCOO(in.num_src, in.num_dst, in.row, in.col)
        /\ ref = [num_src |-> in.num_src, num_dst |-> in.num_dst,
                  edges |-> [k \in 1..Len(in.row) |-> <<in.row[k], in.col[k]>>]]
        /\ made = <<"coo">>

InitFromCSR ==
    \E in \in CSRInputs(MaxV, MaxE) :
        /\ bg = CreateFromCSR(in.num_src, in.num_dst, in.indptr, in.indices, in.edge_ids)
        /\ ref = [num_src |-> in.num_src, num_dst |-> in.num_dst,
                  edges |-> [e \in 1..Len(in.indices) |->
                    LET k == CHOOSE j \in 1..Len(in.indices) : in.edge_ids[j] = e - 1
                    IN <<in.rowof[k], in.indices[k]>>]]
        /\ made = <<"out_csr">>

Init ==
    /\ InitFromCOO \/ InitFromCSR
    /\ ret = NoCall
    /\ hg = NoHetero
    /\ hret = NoCall
    /\ smp = NoSampler
    /\ drv = NoDriver
    /\ ah = NoHeap /\ us = NoUniform

\* ------------------------------------------------------------------------
\* The stand-alone bipartite graph: one action per operation
\* ------------------------------------------------------------------------
NewViews(b, b2) ==
    (IF ~Present(b.in_csr) /\ Present(b2.in_csr) THEN <<"in_csr">> ELSE <<>>)
    \o (IF ~Present(b.out_csr) /\ Present(b2.out_csr) THEN <<"out_csr">> ELSE <<>>)
    \o (IF ~Present(b.coo) /\ Present(b2.coo) THEN <<"coo">> ELSE <<>>)

\* A call is issued once the result of the previous one has been taken
Call(op, arg, r) ==
    /\ ret.op = "none"
    /\ bg' = r.g
    /\ ret' = [op |-> op, arg |-> arg, val |-> r.val, err |-> r.err]
    /\ made' = made \o NewViews(bg, r.g)
    /\ UNCHANGED <<ref, hg, hret, smp, drv, ah, us>>

SrcIds == 0..(ref.num_src - 1)

DstIds == 0..(ref.num_dst - 1)

EdgeIdsOf == 0..(Len(ref.edges) - 1)

NumVertices ==
    \E vtype \in {kSrcVType, kDstVType} :
        Call("NumVertices", <<vtype>>, Bipartite_NumVertices(bg, vtype))

NumEdges == Call("NumEdges", <<>>, Bipartite_NumEdges(bg))

HasEdgeBetween ==
    \E src \in SrcIds, dst \in DstIds :
        Call("HasEdgeBetween", <<src, dst>>, Bipartite_HasEdgeBetween(bg, src, dst))

Predecessors ==
    \E dst \in DstIds : Call("Predecessors", <<dst>>, Bipartite_Predecessors(bg, dst))

Successors ==
    \E src \in SrcIds : Call("Successors", <<src>>, Bipartite_Successors(bg, src))

EdgeId ==
    \E src \in SrcIds, dst \in DstIds :
        Call("EdgeId", <<src, dst>>, Bipartite_EdgeId(bg, src, dst))

FindEdges ==
    \E eids \in SeqsUpTo(EdgeIdsOf, 1) :
        Call("FindEdges", <<eids>>, Bipartite_FindEdges(bg, eids))

InEdges ==
    \E vid \in DstIds : Call("InEdges", <<vid>>, Bipartite_InEdges(bg, vid))

OutEdges ==
    \E vid \in SrcIds : Call("OutEdges", <<vid>>, Bipartite_OutEdges(bg, vid))

Edges ==
    \E order \in {"", "eid", "srcdst"} :
        Call("Edges", <<order>>, Bipartite_Edges(bg, order))

InDegree ==
    \E vid \in DstIds : Call("InDegree", <<vid>>, Bipartite_InDegree(bg, vid))

OutDegree ==
    \E vid \in SrcIds : Call("OutDegree", <<vid>>, Bipartite_OutDegree(bg, vid))

GetAdj ==
    \E transpose \in BOOLEAN, fmt \in {"csr", "coo"} :
        Call("GetAdj", <<transpose, fmt>>, Bipartite_GetAdj(bg, transpose, fmt))

AddVertices ==
    \E vtype \in {kSrcVType, kDstVType} :
        Call("AddVertices", <<vtype, 1>>, Bipartite_AddVertices(bg, vtype, 1))

AddEdge ==
    \E src \in SrcIds, dst \in DstIds :
        Call("AddEdge", <<src, dst>>, Bipartite_AddEdge(bg, src, dst))

AddEdges ==
    \E src \in SrcIds, dst \in DstIds :
        Call("AddEdges", <<(<<src>>), (<<dst>>)>>, Bipartite_AddEdges(bg, <<src>>, <<dst>>))

Clear == Call("Clear", <<>>, Bipartite_Clear(bg))

\* the caller takes the result of the call
Return ==
    /\ ret.op # "none"
    /\ ret' = NoCall
    /\ UNCHANGED <<bg, ref, made, hg, hret, smp, drv, ah, us>>

Next ==
    \/ NumVertices \/ NumEdges \/ HasEdgeBetween
    \/ Predecessors \/ Successors \/ EdgeId \/ FindEdges
    \/ InEdges \/ OutEdges \/ Edges \/ InDegree \/ OutDegree
    \/ GetAdj
    \/ AddVertices \/ AddEdge \/ AddEdges \/ Clear
    \/ Return

Spec == Init /\ [][Next]_vars

\* ------------------------------------------------------------------------
\* The stand-alone bipartite graph with its subgraph operations
\* ------------------------------------------------------------------------
VertexSubgraph ==
    \E vsrc \in DupFreeSeqs(SrcIds, MaxSel) :
        \E vdst \in DupFreeSeqs(DstIds, MaxSel - Len(vsrc)) :
            Call("VertexSubgraph", <<vsrc, vdst>>,
                 Bipartite_VertexSubgraph(bg, <<vsrc, vdst>>))

EdgeSubgraph ==
    \E eids \in SeqsUpTo(EdgeIdsOf, MaxSel), preserve_nodes \in BOOLEAN :
        Call("EdgeSubgraph", <<eids, preserve_nodes>>,
             Bipartite_EdgeSubgraph(bg, <<eids>>, preserve_nodes))

NextSubgraph ==
    \/ VertexSubgraph
    \/ EdgeSubgraph
    \/ Predecessors
    \/ Successors
    \/ Edges
    \/ Return

SpecSubgraph == Init /\ [][NextSubgraph]_vars

\* ------------------------------------------------------------------------
\* The stand-alone bipartite graph with all its operations
\* ------------------------------------------------------------------------
HasEdgesBetween ==
    \E ps \in SeqsUpTo(SrcIds \X DstIds, MaxSel) :
        Call("HasEdgesBetween",
             <<[i \in 1..Len(ps) |-> ps[i][1]], [i \in 1..Len(ps) |-> ps[i][2]]>>,
             Bipartite_HasEdgesBetween(bg, [i \in 1..Len(ps) |-> ps[i][1]],
                                       [i \in 1..Len(ps) |-> ps[i][2]]))

NextViews ==
    \/ Next
    \/ HasEdgesBetween
    \/ VertexSubgraph
    \/ EdgeSubgraph

SpecViews == Init /\ [][NextViews]_vars

\* ------------------------------------------------------------------------
\* The heterograph: construction and one action per operation
\* ------------------------------------------------------------------------
\* the meta-graphs: A -> B -> C; A -> C <- B; A -> A, A -> B
MetaGraphs ==
    {[num_vtypes |-> 3, edges |-> << <<0, 1>>, <<1, 2>> >>],
     [num_vtypes |-> 3, edges |-> << <<0, 2>>, <<1, 2>> >>],
     [num_vtypes |-> 2, edges |-> << <<0, 0>>, <<0, 1>> >>]}

\* two relation graphs with at most maxe edges together
RelationInputs(maxv, maxe) ==
    UNION {UNION {COOInputsN(maxv, e1) \X COOInputsN(maxv, e2)
                  : e2 \in 0..(maxe - e1)} : e1 \in 0..maxe}

InitHetero ==
    /\ \E meta \in MetaGraphs, in \in RelationInputs(MaxHV, MaxHE) :
          hg = HeteroGraph(meta,
                  [t \in 1..2 |-> CreateFromCOO(in[t].num_src, in[t].num_dst,
                                                in[t].row, in[t].col)])
    /\ hret = NoCall
    /\ bg = NoView
    /\ ref = <<>>
    /\ made = <<>>
    /\ ret = NoCall
    /\ smp = NoSampler
    /\ drv = NoDriver
    /\ ah = NoHeap /\ us = NoUniform

\* one id array per domain, at most budget ids together; the arrays are
\* duplicate-free when dupfree
RECURSIVE Selections(_, _, _)
Selections(domains, budget, dupfree) ==
    IF domains = <<>> THEN {<<>>}
    ELSE UNION {{<<a>> \o rest : rest \in Selections(Tail(domains), budget - Len(a), dupfree)}
                : a \in IF dupfree THEN DupFreeSeqs(Head(domains), budget)
                        ELSE SeqsUpTo(Head(domains), budget)}

Min(S) == CHOOSE x \in S : \A y \in S : x <= y

\* the vertex counts the relations of h give to vertex type vtype
SideCounts(h, vtype) ==
    {h.rels[t].coo.num_rows : t \in {u \in 1..Len(h.rels) : h.meta.edges[u][1] = vtype}}
    \cup {h.rels[t].coo.num_cols : t \in {u \in 1..Len(h.rels) : h.meta.edges[u][2] = vtype}}

\* the ids of type vtype that are vertices of every relation touching vtype
VTypeIds(h, vtype) == 0..(Min(SideCounts(h, vtype)) - 1)

ETypeIds(h, etype) == 0..(Len(h.rels[etype + 1].coo.row) - 1)

HeteroCall(op, arg, r) ==
    /\ hg.status = "ok"
    /\ hret.op = "none"
    /\ hg' = r.g
    /\ hret' = [op |-> op, arg |-> arg, val |-> r.val, err |-> r.err]
    /\ UNCHANGED <<bg, ref, made, ret, smp, drv, ah, us>>

HeteroNumVertices ==
    \E vtype \in 0..(NumVertexTypes(hg) - 1) :
        HeteroCall("NumVertices", <<vtype>>, Result(hg, HeteroGraph_NumVertices(hg, vtype)))

HeteroVertexSubgraph ==
    \E vids \in Selections([v \in 1..NumVertexTypes(hg) |-> VTypeIds(hg, v - 1)],
                           MaxSel, TRUE) :
        HeteroCall("VertexSubgraph", <<vids>>, HeteroGraph_VertexSubgraph(hg, vids))

HeteroEdgeSubgraph ==
    \E eids \in Selections([t \in 1..NumEdgeTypes(hg) |-> ETypeIds(hg, t - 1)],
                           MaxSel, FALSE),
       preserve_nodes \in BOOLEAN :
        HeteroCall("EdgeSubgraph", <<eids, preserve_nodes>>,
                   HeteroGraph_EdgeSubgraph(hg, eids, preserve_nodes))

HeteroReturn ==
    /\ hret.op # "none"
    /\ hret' = NoCall
    /\ UNCHANGED <<bg, ref, made, ret, hg, smp, drv, ah, us>>

NextHetero ==
    \/ HeteroNumVertices
    \/ HeteroVertexSubgraph
    \/ HeteroEdgeSubgraph
    \/ HeteroReturn

SpecHetero == InitHetero /\ [][NextHetero]_vars

\* ------------------------------------------------------------------------
\* Properties of the stand-alone bipartite graph
\* ------------------------------------------------------------------------
NumRefEdges == Len(ref.edges)

\* the (src, dst, eid) triples of the factory's edge list
RefTriples == {<<ref.edges[k][1], ref.edges[k][2], k - 1>> : k \in 1..NumRefEdges}

OutTriples(csr) == {<<e.r, e.c, e.d>> : e \in Image(CSREntries(csr))}

InTriples(csr) == {<<e.c, e.r, e.d>> : e \in Image(CSREntries(csr))}

\* the other endpoints of the reference edges that have endpoint v on side `side`
\* (1 = src, 2 = dst), in edge-id order
RefNeighbors(side, v) ==
    LET hits == SelectSeq(ref.edges, LAMBDA e : e[side] = v)
    IN [i \in 1..Len(hits) |-> hits[i][3 - side]]

RefEdgeIds(src, dst) == {k - 1 : k \in {j \in 1..NumRefEdges : ref.edges[j] = <<src, dst>>}}

\* the (index, data) pairs of row r of a CSR, in storage order
RowPairs(csr, r) ==
    [i \in 1..Len(RowSlice(csr, r)) |->
        <<csr.indices[RowSlice(csr, r)[i]], csr.data[RowSlice(csr, r)[i]]>>]

\* the in-CSR built directly from the COO with rows and columns swapped
DirectInCSR(coo) ==
    COOToCSR(COOMatrix(coo.num_cols, coo.num_rows, coo.col, coo.row))

\* C1: every view that is present holds exactly the (src, dst, eid) triples of
\* the edge list the bipartite was built from, once each, and the edge at COO
\* position e is edge e.
C1_ViewsAgree ==
    /\ Present(bg.coo) =>
          /\ Len(bg.coo.row) = NumRefEdges /\ Len(bg.coo.col) = NumRefEdges
          /\ \A k \in 1..NumRefEdges : <<bg.coo.row[k], bg.coo.col[k]>> = ref.edges[k]
    /\ Present(bg.out_csr) =>
          /\ Len(bg.out_csr.indices) = NumRefEdges
          /\ OutTriples(bg.out_csr) = RefTriples
    /\ Present(bg.in_csr) =>
          /\ Len(bg.in_csr.indices) = NumRefEdges
          /\ InTriples(bg.in_csr) = RefTriples

\* a bipartite built from CSR with all three views materialized
C1_Witness ==
    /\ Len(made) = 3 /\ made[1] = "out_csr"
    /\ NumRefEdges >= 2
    /\ \E k \in 1..NumRefEdges : bg.out_csr.data[k] # k - 1

C3_QueriesAgree ==
    /\ ret.op = "Successors" => SameBag(ret.val, RefNeighbors(1, ret.arg[1]))
    /\ ret.op = "Predecessors" => SameBag(ret.val, RefNeighbors(2, ret.arg[1]))
    /\ ret.op = "EdgeId" =>
          /\ IsDupFree(ret.val)
          /\ Image(ret.val) = RefEdgeIds(ret.arg[1], ret.arg[2])
    /\ ret.op = "InEdges" =>
          /\ Len(ret.val.src) = Len(ret.val.id) /\ Len(ret.val.dst) = Len(ret.val.id)
          /\ IsDupFree(ret.val.id)
          /\ {<<ret.val.src[i], ret.val.dst[i], ret.val.id[i]>> : i \in 1..Len(ret.val.id)}
                = {t \in RefTriples : t[2] = ret.arg[1]}

\* in_edges answered from an in-CSR that was transposed from the factory's CSR
C3_Witness ==
    /\ ret.op = "InEdges"
    /\ made = <<"out_csr", "in_csr">>
    /\ \E i \in 1..Len(ret.val.id) : ret.val.src[i] # ret.val.dst[i]

\* the indices of row v of an (indptr, indices, data) triple
TripleRow(t, v) == [i \in 1..(t[1][v + 2] - t[1][v + 1]) |-> t[2][t[1][v + 1] + i]]

\* C4: get_adj with fmt = "csr" returns the triple of the in-CSR (rows are
\* dst vertices) for transpose = false and of the out-CSR (rows are src
\* vertices) for transpose = true.
C4_GetAdjCsr ==
    (ret.op = "GetAdj" /\ ret.arg[2] = "csr") =>
        IF ret.arg[1]
        THEN /\ Present(bg.out_csr)
             /\ ret.val = <<bg.out_csr.indptr, bg.out_csr.indices, bg.out_csr.data>>
             /\ Len(ret.val[1]) = ref.num_src + 1
             /\ \A v \in SrcIds :
                   SameBag(TripleRow(ret.val, v), RefNeighbors(1, v))
        ELSE /\ Present(bg.in_csr)
             /\ ret.val = <<bg.in_csr.indptr, bg.in_csr.indices, bg.in_csr.data>>
             /\ Len(ret.val[1]) = ref.num_dst + 1
             /\ \A v \in DstIds :
                   SameBag(TripleRow(ret.val, v), RefNeighbors(2, v))

\* get_adj(transpose = false, "csr") on a graph with more src than dst vertices
C4_Witness ==
    /\ ret.op = "GetAdj" /\ ret.arg = <<FALSE, "csr">>
    /\ ref.num_src > ref.num_dst
    /\ NumRefEdges >= 1

\* C5 (as stated): built from COO arrays (row, col), get_adj(transpose = false,
\* fmt = "coo") is the row array followed by the col array.
C5_CooAdjRowThenCol ==
    (made[1] = "coo" /\ ret.op = "GetAdj" /\ ret.arg = <<FALSE, "coo">>) =>
        ret.val = bg.coo.row \o bg.coo.col

\* C5 (amended): built from COO arrays (row, col), get_adj(transpose = false,
\* fmt = "coo") is the col array followed by the row array; transpose = true
\* gives the row array followed by the col array.
C5_CooAdjColThenRow ==
    (made[1] = "coo" /\ ret.op = "GetAdj" /\ ret.arg[2] = "coo") =>
        ret.val = IF ret.arg[1] THEN bg.coo.row \o bg.coo.col
                  ELSE bg.coo.col \o bg.coo.row

\* get_adj(transpose = false, "coo") where the two stackings differ
C5_Witness ==
    /\ made[1] = "coo" /\ ret.op = "GetAdj" /\ ret.arg = <<FALSE, "coo">>
    /\ bg.coo.row # bg.coo.col

Mutators == {"AddVertices", "AddEdge", "AddEdges", "Clear"}

\* C6: add_vertices, add_edge, add_edges and clear fail with Immutable and
\* leave the bipartite (vertex counts, edges, materialized views) as it was.
C6_MutatorsFail ==
    [][ret'.op \in Mutators => (ret'.err = "Immutable" /\ bg' = bg)]_vars

\* add_vertices was refused by a bipartite that holds only its COO view
C6_Witness ==
    /\ ret.op = "AddVertices" /\ ret.err = "Immutable"
    /\ ~Present(bg.in_csr) /\ ~Present(bg.out_csr)

\* ------------------------------------------------------------------------
\* Properties of the heterograph
\* ------------------------------------------------------------------------
ETypes == 1..Len(hg.meta.edges)

SrcTypeOf(t) == hg.meta.edges[t][1]

DstTypeOf(t) == hg.meta.edges[t][2]

\* the edge list relation t was built from: edge e is row[e+1] -> col[e+1]
RelRow(t) == hg.rels[t].coo.row

RelCol(t) == hg.rels[t].coo.col

\* C7 (as stated): in a heterograph whose construction succeeded, num_vertices(v)
\* is the src count of every relation with src type v and the dst count of every
\* relation with dst type v.
C7_NumVerticesAgree ==
    hg.status = "ok" =>
        \A t \in ETypes :
            /\ HeteroGraph_NumVertices(hg, SrcTypeOf(t)) = hg.rels[t].coo.num_rows
            /\ HeteroGraph_NumVertices(hg, DstTypeOf(t)) = hg.rels[t].coo.num_cols

\* C8: vertex_subgraph(vids) keeps the meta-graph, returns vids as induced
\* vertices, and relation t of the result holds exactly the edges of t with
\* src in vids[sv] and dst in vids[dv]: sub-edge i is original edge
\* induced_edges[t][i], its endpoints being positions in vids[sv] and vids[dv].
C8_VertexSubgraph ==
    hret.op = "VertexSubgraph" =>
        LET vids == hret.arg[1]
            sub == hret.val.graph
        IN /\ sub.meta = hg.meta
           /\ sub.status = "ok"
           /\ hret.val.induced_vertices = vids
           /\ Len(sub.rels) = Len(hg.rels)
           /\ \A t \in ETypes :
                 LET vs == vids[SrcTypeOf(t) + 1]
                     vd == vids[DstTypeOf(t) + 1]
                     ie == hret.val.induced_edges[t]
                     csr == sub.rels[t].out_csr
                     ents == CSREntries(csr)
                 IN /\ csr.num_rows = Len(vs) /\ csr.num_cols = Len(vd)
                    /\ IsDupFree(ie)
                    /\ Image(ie) = {e \in 0..(Len(RelRow(t)) - 1) :
                                       /\ RelRow(t)[e + 1] \in Image(vs)
                                       /\ RelCol(t)[e + 1] \in Image(vd)}
                    /\ Len(ents) = Len(ie)
                    /\ IsDupFree(csr.data)
                    /\ \A k \in 1..Len(ents) :
                          /\ ents[k].d \in 0..(Len(ie) - 1)
                          /\ vs[ents[k].r + 1] = RelRow(t)[ie[ents[k].d + 1] + 1]
                          /\ vd[ents[k].c + 1] = RelCol(t)[ie[ents[k].d + 1] + 1]

\* a vertex subgraph that relabels an endpoint and leaves an edge out
C8_Witness ==
    /\ hret.op = "VertexSubgraph"
    /\ \E t \in ETypes :
          /\ Len(hret.val.induced_edges[t]) >= 1
          /\ Len(hret.val.induced_edges[t]) < Len(RelRow(t))
          /\ \E k \in 1..Len(hret.val.induced_edges[t]) :
                hret.val.graph.rels[t].out_csr.indices[k]
                    # RelCol(t)[hret.val.induced_edges[t][k] + 1]

\* C9 (as stated): with preserve_nodes = true every relation touching vertex
\* type v writes the same array [0, num_vertices(v)) to induced_vertices[v].
C9_PreserveWritesIdentical ==
    (hret.op = "EdgeSubgraph" /\ hret.arg[2]) =>
        \A i \in 1..Len(hret.val.writes) :
            LET w == hret.val.writes[i]
            IN /\ w[2] = Range(0, HeteroGraph_NumVertices(hg, w[1]))
               /\ \A j \in 1..Len(hret.val.writes) :
                     hret.val.writes[j][1] = w[1] => hret.val.writes[j][2] = w[2]

\* the endpoints of vertex type v of the edges selected by eids
SelectedEndpoints(eids, v) ==
    UNION {{RelRow(t)[eids[t][i] + 1] : i \in 1..Len(eids[t])} :
              t \in {u \in ETypes : SrcTypeOf(u) = v}}
    \cup UNION {{RelCol(t)[eids[t][i] + 1] : i \in 1..Len(eids[t])} :
              t \in {u \in ETypes : DstTypeOf(u) = v}}

\* C10: with preserve_nodes = false induced_vertices[v] is the duplicate-free
\* union of the type-v endpoints of all selected edges, relation t of the
\* result has |induced_vertices[sv]| src and |induced_vertices[dv]| dst
\* vertices, and sub-edge i of t maps through induced_vertices to the endpoints
\* of original edge eids[t][i].
C10_EdgeSubgraphShared ==
    (hret.op = "EdgeSubgraph" /\ ~hret.arg[2]) =>
        LET eids == hret.arg[1]
            iv == hret.val.induced_vertices
            sub == hret.val.graph
        IN /\ sub.meta = hg.meta
           /\ sub.status = "ok"
           /\ hret.val.induced_edges = eids
           /\ \A v \in 1..hg.meta.num_vtypes :
                 /\ IsDupFree(iv[v])
                 /\ Image(iv[v]) = SelectedEndpoints(eids, v - 1)
           /\ \A t \in ETypes :
                 LET coo == sub.rels[t].coo
                     ivs == iv[SrcTypeOf(t) + 1]
                     ivd == iv[DstTypeOf(t) + 1]
                 IN /\ coo.num_rows = Len(ivs) /\ coo.num_cols = Len(ivd)
                    /\ Len(coo.row) = Len(eids[t]) /\ Len(coo.col) = Len(eids[t])
                    /\ \A i \in 1..Len(eids[t]) :
                          /\ ivs[coo.row[i] + 1] = RelRow(t)[eids[t][i] + 1]
                          /\ ivd[coo.col[i] + 1] = RelCol(t)[eids[t][i] + 1]

\* A -> B -> C with one edge selected per relation, the two edges meeting B
\* in different vertices: B keeps two vertices and the edge of B -> C leaves
\* the second one
C10_Witness ==
    /\ hret.op = "EdgeSubgraph" /\ ~hret.arg[2]
    /\ hg.meta.edges = << <<0, 1>>, <<1, 2>> >>
    /\ Len(hret.arg[1][1]) = 1 /\ Len(hret.arg[1][2]) = 1
    /\ Len(hret.val.induced_vertices[2]) = 2
    /\ hret.val.graph.rels[2].coo.row = <<1>>

\* ------------------------------------------------------------------------
\* Properties of the bipartite edge subgraph
\* ------------------------------------------------------------------------
\* the src (side 1) or dst (side 2) endpoints of the edges eids, in the order
\* of eids
EndpointsOf(eids, side) == [i \in 1..Len(eids) |-> ref.edges[eids[i] + 1][side]]

\* s lists the elements of t once each, in the order of their first
\* occurrence in t
IsFirstSeenOf(s, t) ==
    /\ IsDupFree(s)
    /\ Image(s) = Image(t)
    /\ \A i, j \in 1..Len(s) : i < j => FirstPos(t, s[i]) < FirstPos(t, s[j])

\* C11: edge_subgraph(eids, preserve_nodes = false) of a bipartite densifies
\* src and dst independently: the induced vertices of each side are the
\* endpoints of the selected edges, duplicate-free and in first-seen order,
\* induced_edges is eids, and sub-edge i joins the positions of the endpoints
\* of original edge eids[i]
C11_EdgeSubgraphDensifies ==
    (ret.op = "EdgeSubgraph" /\ ~ret.arg[2]) =>
        LET eids == ret.arg[1]
            iv == ret.val.induced_vertices
            sub == ret.val.graph.coo
        IN /\ IsFirstSeenOf(iv[1], EndpointsOf(eids, 1))
           /\ IsFirstSeenOf(iv[2], EndpointsOf(eids, 2))
           /\ ret.val.induced_edges = <<eids>>
           /\ ~Present(ret.val.graph.in_csr) /\ ~Present(ret.val.graph.out_csr)
           /\ sub.num_rows = Len(iv[1]) /\ sub.num_cols = Len(iv[2])
           /\ Len(sub.row) = Len(eids) /\ Len(sub.col) = Len(eids)
           /\ \A i \in 1..Len(eids) :
                 /\ iv[1][sub.row[i] + 1] = ref.edges[eids[i] + 1][1]
                 /\ iv[2][sub.col[i] + 1] = ref.edges[eids[i] + 1][2]

\* an edge subgraph of a bipartite whose COO view was derived from a CSR,
\* selecting two edges that share the src endpoint but not the dst endpoint
C11_Witness ==
    /\ ret.op = "EdgeSubgraph" /\ ~ret.arg[2]
    /\ made[1] = "out_csr"
    /\ Len(ret.arg[1]) = 2
    /\ Len(ret.val.induced_vertices[1]) = 1
    /\ Len(ret.val.induced_vertices[2]) = 2
    /\ ret.val.induced_vertices[2][1] > ret.val.induced_vertices[2][2]

\* ------------------------------------------------------------------------
\* The samplers: ArrayHeap
\* ------------------------------------------------------------------------
RECURSIVE Pow2(_)
Pow2(b) == IF b = 0 THEN 1 ELSE 2 * Pow2(b - 1)

\* ceil(log2(n)) for n >= 1
RECURSIVE CeilLog2From(_, _)
CeilLog2From(n, b) == IF Pow2(b) >= n THEN b ELSE CeilLog2From(n, b + 1)

\* ValueType is float: a whole number below 2^24 in magnitude is a float, a
\* larger one is rounded to the nearest multiple of its unit in the last
\* place (24 significant bits), a tie going to the even multiple
RECURSIVE FloorLog2From(_, _)
FloorLog2From(x, b) == IF Pow2(b + 1) > x THEN b ELSE FloorLog2From(x, b + 1)

RoundToUlp(x, ulp) ==
    IF 2 * (x % ulp) < ulp THEN (x \div ulp) * ulp
    ELSE IF 2 * (x % ulp) > ulp THEN (x \div ulp + 1) * ulp
    ELSE IF (x \div ulp) % 2 = 0 THEN (x \div ulp) * ulp
    ELSE (x \div ulp + 1) * ulp

FloatOfNat(x) ==
    IF x < Pow2(FloatBits) THEN x
    ELSE RoundToUlp(x, Pow2(FloorLog2From(x, FloatBits) - FloatBits + 1))

Float(x) == IF x < 0 THEN 0 - FloatOfNat(0 - x) ELSE FloatOfNat(x)

\* the loop "iterate up the tree" of the constructor, from level i down to 0
RECURSIVE HeapSumLevels(_, _)
HeapSumLevels(heap, i) ==
    IF i < 0 THEN heap
    ELSE HeapSumLevels(
            [j \in DOMAIN heap |->
                IF j >= Pow2(i) /\ j < Pow2(i + 1) THEN Float(heap[2 * j] + heap[2 * j + 1])
                ELSE heap[j]],
            i - 1)

\* ArrayHeap::ArrayHeap: heap_ has 2 * limit_ slots, the leaves start at limit_
ArrayHeap(prob) ==
    LET vec_size == Len(prob)
        bit_len == CeilLog2From(vec_size, 0)
        limit == Pow2(bit_len)
        leaves == [j \in 0..(2 * limit - 1) |->
                     IF j >= limit /\ j < vec_size + limit THEN prob[j - limit + 1] ELSE 0]
    IN [vec_size |-> vec_size, bit_len |-> bit_len, limit |-> limit,
        heap |-> HeapSumLevels(leaves, bit_len - 1)]

\* the loop of ArrayHeap::Delete: w is taken off node i and off its ancestors,
\* j + 1 nodes in all
RECURSIVE HeapSubtract(_, _, _, _)
HeapSubtract(heap, i, w, j) ==
    IF j < 0 THEN heap
    ELSE HeapSubtract([heap EXCEPT ![i] = Float(@ - w)], i \div 2, w, j - 1)

\* ArrayHeap::Delete
ArrayHeap_Delete(h, index) ==
    [h EXCEPT !.heap = HeapSubtract(h.heap, index + h.limit,
                                    h.heap[index + h.limit], h.bit_len)]

\* the descent of ArrayHeap::Sample from node i with the remaining xi
RECURSIVE HeapDescend(_, _, _)
HeapDescend(h, i, xi) ==
    IF i >= h.limit THEN i - h.limit
    ELSE IF xi >= h.heap[2 * i] THEN HeapDescend(h, 2 * i + 1, xi - h.heap[2 * i])
         ELSE HeapDescend(h, 2 * i, xi)

\* the values the descent from node i compares the drawn xi with: acc is the
\* sum of what the descent took off xi on its way to i
RECURSIVE XiThresholds(_, _, _)
XiThresholds(h, i, acc) ==
    IF i >= h.limit THEN {}
    ELSE {acc + h.heap[2 * i]} \cup XiThresholds(h, 2 * i, acc)
            \cup XiThresholds(h, 2 * i + 1, acc + h.heap[2 * i])

\* the values xi = heap_[1] * u, u in [0, 1), up to the leaf they select:
\* weights are whole numbers here, and two values of xi with none of the
\* compared values between them select the same leaf, so one xi per stretch
XiValues(h) ==
    IF h.heap[1] > 0
    THEN {0} \cup {t \in XiThresholds(h, 1, 0) : 0 < t /\ t < h.heap[1]}
    ELSE {h.heap[1]} \cup {t \in XiThresholds(h, 1, 0) : h.heap[1] < t /\ t <= 0}

\* ArrayHeap::Sample for the draw xi
ArrayHeap_Sample(h, xi) == HeapDescend(h, 1, xi)

\* ArrayHeap::SampleWithoutReplacement: every sequence of n samples the
\* random draws can produce
RECURSIVE SampleWithoutReplacement(_, _)
SampleWithoutReplacement(h, n) ==
    IF n = 0 THEN {<<>>}
    ELSE UNION {
            {<<ArrayHeap_Sample(h, xi)>> \o rest :
                rest \in SampleWithoutReplacement(
                            ArrayHeap_Delete(h, ArrayHeap_Sample(h, xi)), n - 1)}
            : xi \in XiValues(h)}

\* ------------------------------------------------------------------------
\* The samplers: sampling one neighbor list
\* ------------------------------------------------------------------------
\* the elements of the set S of numbers in ascending order
RECURSIVE SetToSortedSeq(_)
SetToSortedSeq(S) ==
    IF S = {} THEN <<>>
    ELSE LET m == CHOOSE x \in S : \A y \in S : x <= y
         IN <<m>> \o SetToSortedSeq(S \ {m})

\* std::sort of a vector of numbers
RECURSIVE Sort(_)
Sort(s) ==
    IF s = <<>> THEN <<>>
    ELSE LET m == CHOOSE x \in Image(s) : \A y \in Image(s) : x <= y
         IN [i \in 1..Count(s, m) |-> m] \o Sort(SelectSeq(s, LAMBDA x : x # m))

\* RandomSample: the hash set ends with num distinct numbers of [0, set_size);
\* the order in which it is copied out is left open, every caller sorts it
RandomSample(set_size, num) ==
    {S \in SUBSET (0..(set_size - 1)) : Cardinality(S) = num}

\* NegateArray: the walk over [0, arr_size) from i, with the rest `it` of the
\* sorted nz_idxs
RECURSIVE NegateArrayFrom(_, _, _)
NegateArrayFrom(it, arr_size, i) ==
    IF i >= arr_size THEN <<>>
    ELSE IF it # <<>> /\ Head(it) = i THEN NegateArrayFrom(Tail(it), arr_size, i + 1)
         ELSE <<i>> \o NegateArrayFrom(it, arr_size, i + 1)

NegateArray(nz_idxs, arr_size) == NegateArrayFrom(nz_idxs, arr_size, 0)

\* the element at offset off of a C array; past its end the read is undefined
\* and gives any value of wild
ReadAt(arr, off, wild) == IF off < Len(arr) THEN {arr[off + 1]} ELSE wild

\* what one call of GetUniformSample / GetNonUniformSample leaves in out_ver
\* and out_edge; idxs are the positions of the neighbor list it took, rng
\* tells whether the random engine was consulted, oob whether it read past
\* the end of the CSR arrays
SampleOutcome(ver, edge, idxs, rng, oob) ==
    [ver |-> ver, edge |-> edge, idxs |-> idxs, rng |-> rng, oob |-> oob]

\* faulty variant: the copied lists are sorted
CopyNeighbors_Sorted(edge_id_list, vid_list, base, ver_len) ==
    SampleOutcome(Sort(SubSeq(vid_list, base + 1, base + ver_len)),
                  Sort(SubSeq(edge_id_list, base + 1, base + ver_len)),
                  Range(0, ver_len), FALSE, FALSE)

\* the neighbor list of ver_len entries that starts at offset base of the CSR
\* arrays is copied whole
CopyNeighbors(edge_id_list, vid_list, base, ver_len) ==
    SampleOutcome(SubSeq(vid_list, base + 1, base + ver_len),
                  SubSeq(edge_id_list, base + 1, base + ver_len),
                  Range(0, ver_len), FALSE, FALSE)

\* the sorted_idxs GetUniformSample can end with
UniformSortedIdxs(ver_len, max_num_neighbor) ==
    IF ver_len > max_num_neighbor * 2
    THEN {SetToSortedSeq(S) : S \in RandomSample(ver_len, max_num_neighbor)}
    ELSE {NegateArray(SetToSortedSeq(S), ver_len) :
            S \in RandomSample(ver_len, ver_len - max_num_neighbor)}

GetUniformSample(edge_id_list, vid_list, base, ver_len, max_num_neighbor) ==
    IF ver_len <= max_num_neighbor
    THEN {CopyNeighbors(edge_id_list, vid_list, base, ver_len)}
    ELSE {SampleOutcome([i \in 1..Len(sorted_idxs) |-> vid_list[base + sorted_idxs[i] + 1]],
                        [i \in 1..Len(sorted_idxs) |-> edge_id_list[base + sorted_idxs[i] + 1]],
                        sorted_idxs, TRUE, FALSE)
            : sorted_idxs \in UniformSortedIdxs(ver_len, max_num_neighbor)}

\* the vectors out_ver and out_edge can hold for the drawn sp_index, before
\* they are sorted
PickedLists(arr, base, sp_index, wild) ==
    {f \in [1..Len(sp_index) -> Image(arr) \cup wild] :
        \A i \in 1..Len(sp_index) : f[i] \in ReadAt(arr, base + sp_index[i], wild)}

GetNonUniformSample(probability, edge_id_list, vid_list, base, ver_len, max_num_neighbor, wild_ver, wild_edge) ==
    IF ver_len <= max_num_neighbor
    THEN {CopyNeighbors(edge_id_list, vid_list, base, ver_len)}
    ELSE UNION {
            {SampleOutcome(Sort(out_ver), Sort(out_edge), sp_index, TRUE,
                           \E i \in 1..Len(sp_index) :
                               base + sp_index[i] >= Len(vid_list))
                : out_ver \in PickedLists(vid_list, base, sp_index, wild_ver),
                  out_edge \in PickedLists(edge_id_list, base, sp_index, wild_edge)}
            : sp_index \in SampleWithoutReplacement(
                  ArrayHeap([i \in 1..ver_len |->
                                probability[edge_id_list[base + i] + 1]]),
                  max_num_neighbor)}

\* ------------------------------------------------------------------------
\* The samplers: SampleSubgraph, the neighbor sampler
\* ------------------------------------------------------------------------
\* the graph handed to a sampler: n vertices and the edges <<src, dst>> in the
\* order of their ids
SamplerGraph(n, edges) == [n |-> n, edges |-> edges]

\* ImmutableGraph::GetInCSR (rows are destinations) and GetOutCSR (rows are
\* sources); indices holds the neighbors of a row and data their edge ids
GraphCSR(g, edge_type) ==
    IF edge_type = "in"
    THEN COOToCSR(COOMatrix(g.n, g.n, [e \in 1..Len(g.edges) |-> g.edges[e][2]],
                            [e \in 1..Len(g.edges) |-> g.edges[e][1]]))
    ELSE COOToCSR(COOMatrix(g.n, g.n, [e \in 1..Len(g.edges) |-> g.edges[e][1]],
                            [e \in 1..Len(g.edges) |-> g.edges[e][2]]))

\* "add seed vertices": the seeds not seen before are queued with layer 0
RECURSIVE AddSeedVertices(_, _)
AddSeedVertices(seeds, sub_vers) ==
    IF seeds = <<>> THEN sub_vers
    ELSE AddSeedVertices(Tail(seeds),
            IF \E i \in 1..Len(sub_vers) : sub_vers[i][1] = Head(seeds)
            THEN sub_vers ELSE Append(sub_vers, <<Head(seeds), 0>>))

\* the sampled neighbors that are new to the layer are queued for the next
RECURSIVE QueueNeighbors(_, _, _, _)
QueueNeighbors(tmp_sampled_src_list, level, sub_ver_map, sub_vers) ==
    IF tmp_sampled_src_list = <<>>
    THEN [sub_ver_map |-> sub_ver_map, sub_vers |-> sub_vers]
    ELSE IF Head(tmp_sampled_src_list) \in sub_ver_map
         THEN QueueNeighbors(Tail(tmp_sampled_src_list), level, sub_ver_map, sub_vers)
         ELSE QueueNeighbors(Tail(tmp_sampled_src_list), level,
                             sub_ver_map \cup {Head(tmp_sampled_src_list)},
                             Append(sub_vers, <<Head(tmp_sampled_src_list), level>>))

NoStep == [dst_id |-> -1]

NoNodeFlow == [status |-> "none"]

\* the for loop over layer_id: a layer with vertices to expand is entered,
\* a layer without any is closed at once, and after the last layer the
\* sampler goes on to ConstructNodeFlow
RECURSIVE EnterLayer(_)
EnterLayer(st) ==
    IF st.layer_id >= st.num_hops THEN [st EXCEPT !.pc = "construct"]
    ELSE IF st.layer_offsets[st.layer_id] < st.layer_offsets[st.layer_id + 1]
         THEN [st EXCEPT !.sub_ver_map = {}, !.idx = st.layer_offsets[st.layer_id]]
         ELSE EnterLayer([st EXCEPT
                 !.layer_offsets[st.layer_id + 2] = st.layer_offsets[st.layer_id + 1],
                 !.sub_ver_map = {},
                 !.layer_id = st.layer_id + 1])

\* the end of the loop over the vertices of a layer
CloseLayer(st) ==
    EnterLayer([st EXCEPT
        !.layer_offsets[st.layer_id + 2] =
            st.layer_offsets[st.layer_id + 1] + Cardinality(st.sub_ver_map),
        !.layer_id = st.layer_id + 1])

\* SampleSubgraph up to the first vertex to expand
SampleSubgraph_Begin(g, seeds, probability, weighted, edge_type, num_hops, num_neighbor, add_self_loop) ==
    EnterLayer(
        [pc |-> "sampling", kind |-> "neighbor", g |-> g, seeds |-> seeds,
         probability |-> probability,
         weighted |-> weighted, edge_type |-> edge_type, num_hops |-> num_hops,
         num_neighbor |-> num_neighbor, add_self_loop |-> add_self_loop,
         orig_csr |-> GraphCSR(g, edge_type),
         sub_ver_map |-> {},
         sub_vers |-> AddSeedVertices(seeds, <<>>),
         neigh_pos |-> <<>>, neighbor_list |-> <<>>, edge_list |-> <<>>,
         layer_offsets |-> [i \in 1..(num_hops + 1) |->
                              IF i = 2 THEN Len(AddSeedVertices(seeds, <<>>)) ELSE 0],
         num_edges |-> 0, layer_id |-> 1, idx |-> 0,
         last |-> NoStep, nf |-> NoNodeFlow])

\* faulty variant: the self-edge is not looked up
AddSelfLoop_NoLookup(add_self_loop, dst_id, src, edge, csr, base, ver_len) ==
    IF add_self_loop /\ dst_id \notin Image(src)
    THEN [src |-> Append(src, dst_id), edge |-> Append(edge, -1), appended |-> TRUE]
    ELSE [src |-> src, edge |-> edge, appended |-> FALSE]

\* the self-loop step on the sampled lists of dst_id, whose neighbor list of
\* ver_len entries starts at offset base
AddSelfLoop(add_self_loop, dst_id, src, edge, csr, base, ver_len) ==
    IF add_self_loop /\ dst_id \notin Image(src)
    THEN [src |-> Append(src, dst_id),
          edge |-> Append(edge,
              IF \E k \in 1..ver_len : csr.indices[base + k] = dst_id
              THEN csr.data[base + FirstPos(SubSeq(csr.indices, base + 1, base + ver_len),
                                            dst_id) + 1]
              ELSE -1),
          appended |-> TRUE]
    ELSE [src |-> src, edge |-> edge, appended |-> FALSE]

\* the rest of the loop body once tmp_sampled_src_list and
\* tmp_sampled_edge_list (tmp) are final
PushSampled(st, dst_id, ver_len, out, tmp, queued) ==
    [st EXCEPT
        !.neigh_pos = Append(@, [id |-> dst_id, pos |-> Len(st.neighbor_list),
                                 num_edges |-> Len(tmp.src)]),
        !.neighbor_list = @ \o tmp.src,
        !.edge_list = @ \o tmp.edge,
        !.num_edges = @ + Len(tmp.src),
        !.sub_ver_map = queued.sub_ver_map,
        !.sub_vers = queued.sub_vers,
        !.idx = @ + 1,
        !.last = [dst_id |-> dst_id, ver_len |-> ver_len, out |-> out,
                  appended |-> tmp.appended, src |-> tmp.src, edge |-> tmp.edge]]

EndOfBody(st) ==
    IF st.idx >= st.layer_offsets[st.layer_id + 1] THEN CloseLayer(st) ELSE st

\* one pass of the loop body for the vertex sub_vers[idx], whose neighbor list
\* of ver_len entries starts at offset base and was sampled as out
SampleVertex(st, dst_id, level, base, ver_len, out) ==
    EndOfBody(
        PushSampled(st, dst_id, ver_len, out,
            AddSelfLoop(st.add_self_loop, dst_id, out.ver, out.edge,
                        st.orig_csr, base, ver_len),
            QueueNeighbors(
                AddSelfLoop(st.add_self_loop, dst_id, out.ver, out.edge,
                            st.orig_csr, base, ver_len).src,
                level + 1, st.sub_ver_map, st.sub_vers)))

\* ------------------------------------------------------------------------
\* The samplers: ConstructNodeFlow
\* ------------------------------------------------------------------------
\* the bounds of layer L in sub_vers and neigh_pos
LayerLo(layer_offsets, L) == layer_offsets[L + 1]

LayerHi(layer_offsets, L) == layer_offsets[L + 2]

SumSeq(s) == IF s = <<>> THEN 0 ELSE LET f[i \in 0..Len(s)] == IF i = 0 THEN 0 ELSE f[i - 1] + s[i] IN f[Len(s)]

\* the sort keys of sub_vers (the vertex id) and of neigh_pos (the id field)
VerKeys(sub_vers) == [i \in 1..Len(sub_vers) |-> sub_vers[i][1]]

PosKeys(neigh_pos) == [i \in 1..Len(neigh_pos) |-> neigh_pos[i].id]

\* std::sort of the slice [lo, hi) of v by keys, the rest of v untouched
SortSlice(v, lo, hi, keys) ==
    [i \in 1..Len(v) |->
        IF i <= lo \/ i > hi THEN v[i]
        ELSE v[CHOOSE p \in (lo + 1)..hi :
                 Cardinality({q \in (lo + 1)..hi :
                     \/ keys[q] < keys[p]
                     \/ keys[q] = keys[p] /\ q < p}) = i - lo - 1]]

\* the slices of the layers 1 .. L of v sorted by keys; layer 0 is left alone
SortLayers(v, layer_offsets, L, keys) ==
    [i \in 1..Len(v) |->
        IF \E K \in 1..L : LayerLo(layer_offsets, K) < i /\ i <= LayerHi(layer_offsets, K)
        THEN SortSlice(v,
                LayerLo(layer_offsets, CHOOSE K \in 1..L :
                    LayerLo(layer_offsets, K) < i /\ i <= LayerHi(layer_offsets, K)),
                LayerHi(layer_offsets, CHOOSE K \in 1..L :
                    LayerLo(layer_offsets, K) < i /\ i <= LayerHi(layer_offsets, K)),
                keys)[i]
        ELSE v[i]]

\* node_map_data: the layers from L down to 0 of the sorted sub_vers
RECURSIVE NodeMapFrom(_, _, _)
NodeMapFrom(sub_vers, layer_offsets, L) ==
    IF L < 0 THEN <<>>
    ELSE [i \in 1..(LayerHi(layer_offsets, L) - LayerLo(layer_offsets, L)) |->
             sub_vers[LayerLo(layer_offsets, L) + i][1]]
         \o NodeMapFrom(sub_vers, layer_offsets, L - 1)

\* layer_ver_maps[L]: has vertex vid a flow id in layer L, and which
InLayerVerMap(sub_vers, layer_offsets, L, vid) ==
    \E i \in (LayerLo(layer_offsets, L) + 1)..LayerHi(layer_offsets, L) :
        sub_vers[i][1] = vid

\* faulty variant: ver_id starts again from 0 in every layer
LayerVerMap_PerLayer(sub_vers, layer_offsets, num_hops, L, vid) ==
    (CHOOSE i \in (LayerLo(layer_offsets, L) + 1)..LayerHi(layer_offsets, L) :
          sub_vers[i][1] = vid)
    - LayerLo(layer_offsets, L) - 1

LayerVerMap(sub_vers, layer_offsets, num_hops, L, vid) ==
    (layer_offsets[num_hops + 1] - LayerHi(layer_offsets, L))
    + (CHOOSE i \in (LayerLo(layer_offsets, L) + 1)..LayerHi(layer_offsets, L) :
          sub_vers[i][1] = vid)
    - LayerLo(layer_offsets, L) - 1

\* the row of the flow CSR written for index i (from 1) of sub_vers and
\* neigh_pos, a vertex of layer L
FlowRow(sub_vers, neigh_pos, neighbor_list, edge_list, layer_offsets, num_hops, L, i) ==
    [dst_id |-> sub_vers[i][1],
     id |-> neigh_pos[i].id,
     nedges |-> neigh_pos[i].num_edges,
     found |-> \A j \in 1..neigh_pos[i].num_edges :
                  InLayerVerMap(sub_vers, layer_offsets, L + 1,
                                neighbor_list[neigh_pos[i].pos + j]),
     cols |-> [j \in 1..neigh_pos[i].num_edges |->
                 IF InLayerVerMap(sub_vers, layer_offsets, L + 1,
                                  neighbor_list[neigh_pos[i].pos + j])
                 THEN LayerVerMap(sub_vers, layer_offsets, num_hops, L + 1,
                                  neighbor_list[neigh_pos[i].pos + j])
                 ELSE -1],
     eids |-> SubSeq(edge_list, neigh_pos[i].pos + 1,
                     neigh_pos[i].pos + neigh_pos[i].num_edges)]

\* the rows written by the walk over the layers L, L - 1, .., 0
RECURSIVE FlowRows(_, _, _, _, _, _, _)
FlowRows(sub_vers, neigh_pos, neighbor_list, edge_list, layer_offsets, num_hops, L) ==
    IF L < 0 THEN <<>>
    ELSE [k \in 1..(LayerHi(layer_offsets, L) - LayerLo(layer_offsets, L)) |->
             FlowRow(sub_vers, neigh_pos, neighbor_list, edge_list, layer_offsets,
                     num_hops, L, LayerLo(layer_offsets, L) + k)]
         \o FlowRows(sub_vers, neigh_pos, neighbor_list, edge_list, layer_offsets,
                     num_hops, L - 1)

\* layer_off_data: 0, the size of the deepest layer, then one more layer each
LayerOffData(layer_offsets, num_hops) ==
    [h \in 1..(num_hops + 1) |->
        IF h = 1 THEN 0
        ELSE layer_offsets[num_hops + 1] - layer_offsets[num_hops + 2 - h]]

\* indptr_out: rows [0, deep) are empty, the rows written follow
IndptrOut(rows, deep) ==
    [r \in 1..(deep + Len(rows) + 1) |->
        SumSeq([k \in 1..(IF r - 1 > deep THEN r - 1 - deep ELSE 0) |-> rows[k].nedges])]

\* "Copy flow offsets"
FlowOffData(indptr_out, layer_off_data, num_hops) ==
    LET f[i \in 0..(num_hops - 1)] ==
            IF i = 0 THEN 0
            ELSE f[i - 1] + indptr_out[layer_off_data[i + 2] + 1]
                          - indptr_out[layer_off_data[i + 1] + 1]
    IN [h \in 1..num_hops |-> f[h - 1]]

\* the NodeFlow put together from the parts; a failed CHECK aborts the call
NodeFlowOf(sub_vers, rows, layer_offsets, num_hops, num_edges, edge_type, deep) ==
    IF /\ \A L \in 0..(num_hops - 1) :
             \A i \in (LayerLo(layer_offsets, L) + 1)..LayerHi(layer_offsets, L) :
                 sub_vers[i][2] = L
       /\ \A k \in 1..Len(rows) : rows[k].dst_id = rows[k].id /\ rows[k].found
       /\ deep + Len(rows) = Len(sub_vers)
       /\ IndptrOut(rows, deep)[Len(sub_vers) + 1] = num_edges
    THEN [status |-> "ok",
          node_mapping |-> NodeMapFrom(sub_vers, layer_offsets, num_hops - 1),
          edge_mapping |-> Concat([k \in 1..Len(rows) |-> rows[k].eids]),
          layer_offsets |-> LayerOffData(layer_offsets, num_hops),
          flow_offsets |-> FlowOffData(IndptrOut(rows, deep),
                                       LayerOffData(layer_offsets, num_hops), num_hops),
          indptr |-> IndptrOut(rows, deep),
          indices |-> Concat([k \in 1..Len(rows) |-> rows[k].cols]),
          edge_ids |-> Range(0, num_edges),
          edge_type |-> edge_type]
    ELSE [status |-> "aborted"]

ConstructNodeFlowSorted(sub_vers, neigh_pos, neighbor_list, edge_list, layer_offsets, edge_type, num_edges, num_hops) ==
    NodeFlowOf(sub_vers,
               FlowRows(sub_vers, neigh_pos, neighbor_list, edge_list, layer_offsets,
                        num_hops, num_hops - 2),
               layer_offsets, num_hops, num_edges, edge_type,
               layer_offsets[num_hops + 1] - layer_offsets[num_hops])

\* faulty variant: the seed layer is sorted like the others
ConstructNodeFlow_SortSeeds(neighbor_list, edge_list, layer_offsets, sub_vers, neigh_pos, edge_type, num_edges, num_hops) ==
    ConstructNodeFlowSorted(
        SortSlice(SortLayers(sub_vers, layer_offsets, num_hops - 1, VerKeys(sub_vers)),
                  0, layer_offsets[2], VerKeys(sub_vers)),
        SortSlice(SortLayers(neigh_pos, layer_offsets, num_hops - 2, PosKeys(neigh_pos)),
                  0, layer_offsets[2], PosKeys(neigh_pos)),
        neighbor_list, edge_list, layer_offsets, edge_type, num_edges, num_hops)

\* faulty variant: the seed layer of neigh_pos is sorted, that of sub_vers is not
ConstructNodeFlow_SortSeedPos(neighbor_list, edge_list, layer_offsets, sub_vers, neigh_pos, edge_type, num_edges, num_hops) ==
    ConstructNodeFlowSorted(
        SortLayers(sub_vers, layer_offsets, num_hops - 1, VerKeys(sub_vers)),
        SortSlice(SortLayers(neigh_pos, layer_offsets, num_hops - 2, PosKeys(neigh_pos)),
                  0, layer_offsets[2], PosKeys(neigh_pos)),
        neighbor_list, edge_list, layer_offsets, edge_type, num_edges, num_hops)

ConstructNodeFlow(neighbor_list, edge_list, layer_offsets, sub_vers, neigh_pos, edge_type, num_edges, num_hops) ==
    ConstructNodeFlowSorted(
        SortLayers(sub_vers, layer_offsets, num_hops - 1, VerKeys(sub_vers)),
        SortLayers(neigh_pos, layer_offsets, num_hops - 2, PosKeys(neigh_pos)),
        neighbor_list, edge_list, layer_offsets, edge_type, num_edges, num_hops)

\* ------------------------------------------------------------------------
\* The samplers: LayerUniformSample, the layer-wise sampler
\* ------------------------------------------------------------------------
\* faulty variant: the candidates are gathered from every vertex so far
CandidateSet_FromAll(csr, node_mapping, curr, next) ==
    UNION {{csr.indices[k] : k \in (csr.indptr[node_mapping[j] + 1] + 1)
                                   ..csr.indptr[node_mapping[j] + 2]}
           : j \in 1..next}

\* the neighbors (CSR indices) of the vertices node_mapping[curr .. next)
CandidateSet(csr, node_mapping, curr, next) ==
    UNION {{csr.indices[k] : k \in (csr.indptr[node_mapping[j] + 1] + 1)
                                   ..csr.indptr[node_mapping[j] + 2]}
           : j \in (curr + 1)..next}

\* what layer_size draws with replacement from the candidates can leave in
\* n_occurrences, as <<dst, count>> pairs in the order in which the map is
\* walked (the order of a hash map is left open)
LayerDraws(candidates, layer_size) ==
    UNION {{[i \in 1..Len(order) |-> <<order[i], cnt[i]>>] :
                cnt \in {c \in [1..Len(order) -> 1..layer_size] : SumSeq(c) = layer_size}}
           : order \in DupFreeSeqs(candidates, layer_size) \ {<<>>}}

\* LayerUniformSample up to the first layer to draw: ConstructLayers has
\* copied the seeds
LayerUniformSample_Begin(g, seeds, neighbor_type, layer_sizes) ==
    [pc |-> IF Len(layer_sizes) > 0 THEN "layers" ELSE "flows",
     kind |-> "layer", g |-> g, seeds |-> seeds, edge_type |-> neighbor_type,
     layer_sizes |-> layer_sizes,
     orig_csr |-> GraphCSR(g, neighbor_type),
     node_mapping |-> seeds,
     actl_layer_sizes |-> <<Len(seeds)>>,
     probabilities |-> [j \in 1..Len(seeds) |-> <<1, 1>>],
     curr |-> 0, next |-> Len(seeds), i |-> Len(layer_sizes) - 1,
     nf |-> NoNodeFlow]

\* one pass of the loop over the layers of ConstructLayers, for the drawn
\* n_occurrences; a probability is kept as <<numerator, denominator>>
ConstructLayer(st, n_candidates, n_occurrences) ==
    [st EXCEPT
        !.node_mapping = @ \o [j \in 1..Len(n_occurrences) |-> n_occurrences[j][1]],
        !.probabilities = @ \o [j \in 1..Len(n_occurrences) |->
                                  <<n_occurrences[j][2] * n_candidates,
                                    st.layer_sizes[st.i + 1]>>],
        !.actl_layer_sizes = Append(@, Len(n_occurrences)),
        !.curr = st.next,
        !.next = st.next + Len(n_occurrences),
        !.i = st.i - 1,
        !.pc = IF st.i - 1 >= 0 THEN "layers" ELSE "flows"]

Reverse(s) == [i \in 1..Len(s) |-> s[Len(s) + 1 - i]]

\* the end of ConstructLayers: layer_offsets is the running sum of the
\* reversed actl_layer_sizes
PrefixSums(sizes) ==
    [h \in 1..(Len(sizes) + 1) |-> SumSeq(SubSeq(sizes, 1, h - 1))]

\* source_map of the flow whose source layer is node_mapping[first ..
\* first + src_size): the position of vertex v, the first one inserted
SourceMap(node_mapping, first, src_size, v) ==
    (CHOOSE p \in (first + 1)..(first + src_size) :
        /\ node_mapping[p] = v
        /\ \A q \in (first + 1)..(p - 1) : node_mapping[q] # v) - 1

\* the CSR entries of dst whose neighbor is in the source layer
InSourceLayer(csr, node_mapping, first, src_size, dst) ==
    SelectSeq(RowSlice(csr, dst),
              LAMBDA k : \E p \in (first + 1)..(first + src_size) :
                            node_mapping[p] = csr.indices[k])

\* the <<source position, edge id>> pairs of the CSR entries ks
NeighborPairs(csr, node_mapping, first, src_size, ks) ==
    [e \in 1..Len(ks) |->
        <<SourceMap(node_mapping, first, src_size, csr.indices[ks[e]]),
          csr.data[ks[e]]>>]

\* std::sort of neighbor_indices by source position; the order it leaves among
\* pairs of one source position is open, here they keep their CSR order
SortByFirst(pairs) == SortSlice(pairs, 0, Len(pairs), [i \in 1..Len(pairs) |-> pairs[i][1]])

\* faulty variant: neighbor_indices is left in CSR order
NeighborIndices_Unsorted(csr, node_mapping, first, src_size, dst) ==
    NeighborPairs(csr, node_mapping, first, src_size,
                  InSourceLayer(csr, node_mapping, first, src_size, dst))

\* neighbor_indices of dst after the sort by source position
NeighborIndices(csr, node_mapping, first, src_size, dst) ==
    SortByFirst(NeighborPairs(csr, node_mapping, first, src_size,
                    InSourceLayer(csr, node_mapping, first, src_size, dst)))

\* the rows ConstructFlows writes from flow i on; first is the start of the
\* source layer of flow i
RECURSIVE FlowsFrom(_, _, _, _, _)
FlowsFrom(csr, node_mapping, actl_layer_sizes, i, first) ==
    IF i >= Len(actl_layer_sizes) - 1 THEN <<>>
    ELSE << [j \in 1..actl_layer_sizes[i + 2] |->
               NeighborIndices(csr, node_mapping, first, actl_layer_sizes[i + 1],
                               node_mapping[first + actl_layer_sizes[i + 1] + j])] >>
         \o FlowsFrom(csr, node_mapping, actl_layer_sizes, i + 1,
                      first + actl_layer_sizes[i + 1])

\* the NodeFlow of LayerUniformSample from the reversed node_mapping and
\* actl_layer_sizes, the number of rows of every flow and the rows
LayerNodeFlowOf(node_mapping, actl_layer_sizes, flow_sizes, rows, neighbor_type) ==
    [status |-> "ok",
     node_mapping |-> node_mapping,
     edge_mapping |-> Concat([r \in 1..Len(rows) |->
                                [e \in 1..Len(rows[r]) |-> rows[r][e][2]]]),
     layer_offsets |-> PrefixSums(actl_layer_sizes),
     flow_offsets |-> PrefixSums(flow_sizes),
     indptr |-> [r \in 1..actl_layer_sizes[1] |-> 0]
                \o PrefixSums([r \in 1..Len(rows) |-> Len(rows[r])]),
     indices |-> Concat([r \in 1..Len(rows) |->
                           [e \in 1..Len(rows[r]) |-> rows[r][e][1]]]),
     edge_ids |-> Range(0, SumSeq([r \in 1..Len(rows) |-> Len(rows[r])])),
     edge_type |-> neighbor_type]

FlowSizes(flows) ==
    [f \in 1..Len(flows) |-> SumSeq([r \in 1..Len(flows[f]) |-> Len(flows[f][r])])]

LayerNodeFlowOfFlows(node_mapping, actl_layer_sizes, flows, neighbor_type) ==
    LayerNodeFlowOf(node_mapping, actl_layer_sizes, FlowSizes(flows),
                    Concat(flows), neighbor_type)

\* ConstructFlows and the wrapping of its arrays into the NodeFlow
ConstructFlows(csr, node_mapping, actl_layer_sizes, neighbor_type) ==
    LayerNodeFlowOfFlows(node_mapping, actl_layer_sizes,
                         FlowsFrom(csr, node_mapping, actl_layer_sizes, 0, 0),
                         neighbor_type)

\* ------------------------------------------------------------------------
\* The samplers as a state machine: one call of a sampler on one graph
\* ------------------------------------------------------------------------
\* the graphs given to the samplers
SamplerGraphs ==
    UNION {{SamplerGraph(n, edges) :
                edges \in SeqsUpTo((0..(n - 1)) \X (0..(n - 1)), SMaxE)}
           : n \in 1..SMaxV}

\* the seed arrays of a call: vertex ids of the graph, repeats allowed
SeedArrays(g) == SeqsUpTo(0..(g.n - 1), MaxSeeds) \ {<<>>}

\* the probability arrays of a call: one weight per edge
Probabilities(g) == [1..Len(g.edges) -> 0..MaxWeight]

InitSampler ==
    /\ bg = NoView /\ ref = NoView /\ made = <<>> /\ ret = NoCall
    /\ hg = NoHetero /\ hret = NoCall
    /\ drv = NoDriver
    /\ ah = NoHeap /\ us = NoUniform
    /\ \E g \in SamplerGraphs : smp = [pc |-> "idle", g |-> g]

\* the sampler ended in a failed CHECK or a fault
Aborted(st) == [st EXCEPT !.pc = "done", !.nf = [status |-> "aborted"]]

\* SamplerOp::NeighborSample: SampleSubgraph with one layer more than hops
NeighborSample ==
    /\ smp.pc = "idle"
    /\ \E seeds \in SeedArrays(smp.g), edge_type \in {"in", "out"},
          num_hops \in 1..MaxHops, expand_factor \in 1..MaxNeighbor,
          add_self_loop \in BOOLEAN,
          probability \in {<<>>} \cup Probabilities(smp.g) :
          smp' = SampleSubgraph_Begin(smp.g, seeds, probability,
                                      probability # <<>>, edge_type,
                                      num_hops + 1, expand_factor, add_self_loop)
    /\ UNCHANGED <<bg, ref, made, ret, hg, hret, drv, ah, us>>

\* what a read past the end of an array of ids below count can give: a
\* value that is such an id, or one that is none
WildIds(count) == {0, count}

\* what the sampling of the neighbor list of dst_id can give
SampledLists(st, dst_id) ==
    IF st.weighted
    THEN GetNonUniformSample(st.probability, st.orig_csr.data, st.orig_csr.indices,
                             st.orig_csr.indptr[dst_id + 1],
                             st.orig_csr.indptr[dst_id + 2] - st.orig_csr.indptr[dst_id + 1],
                             st.num_neighbor, WildIds(st.g.n), WildIds(Len(st.g.edges)))
    ELSE GetUniformSample(st.orig_csr.data, st.orig_csr.indices,
                          st.orig_csr.indptr[dst_id + 1],
                          st.orig_csr.indptr[dst_id + 2] - st.orig_csr.indptr[dst_id + 1],
                          st.num_neighbor)

\* the states one pass of the loop body of SampleSubgraph can lead to for
\* the vertex dst_id of level level. A dst_id that is no vertex makes the
\* reads of indptr undefined: the run faults or finds an empty list. A
\* sample that read past the CSR arrays may fault as well.
SampleVertexOutcomes(st, dst_id, level) ==
    IF dst_id >= st.g.n
    THEN {Aborted(st),
          SampleVertex(st, dst_id, level, 0, 0,
                       CopyNeighbors(st.orig_csr.data, st.orig_csr.indices, 0, 0))}
    ELSE UNION {{SampleVertex(st, dst_id, level, st.orig_csr.indptr[dst_id + 1],
                              st.orig_csr.indptr[dst_id + 2] - st.orig_csr.indptr[dst_id + 1],
                              out)}
                \cup (IF out.oob THEN {Aborted(st)} ELSE {})
                : out \in SampledLists(st, dst_id)}

\* SampleSubgraph: one pass of the loop over the vertices of a layer
SampleNeighbors ==
    /\ smp.pc = "sampling"
    /\ smp' \in SampleVertexOutcomes(smp, smp.sub_vers[smp.idx + 1][1],
                                     smp.sub_vers[smp.idx + 1][2])
    /\ UNCHANGED <<bg, ref, made, ret, hg, hret, drv, ah, us>>

\* SampleSubgraph: the call of ConstructNodeFlow and the return
ReturnNodeFlow ==
    /\ smp.pc = "construct"
    /\ smp' = [smp EXCEPT
                 !.pc = "done",
                 !.nf = ConstructNodeFlow(smp.neighbor_list, smp.edge_list,
                                          smp.layer_offsets, smp.sub_vers,
                                          smp.neigh_pos, smp.edge_type,
                                          smp.num_edges, smp.num_hops)]
    /\ UNCHANGED <<bg, ref, made, ret, hg, hret, drv, ah, us>>

\* the layer_sizes arrays of a call
LayerSizes == SeqsUpTo(1..MaxNeighbor, MaxHops)

\* SamplerOp::LayerUniformSample up to the first layer to draw
LayerUniformSample ==
    /\ smp.pc = "idle"
    /\ \E seeds \in SeedArrays(smp.g), neighbor_type \in {"in", "out"},
          layer_sizes \in LayerSizes :
          smp' = LayerUniformSample_Begin(smp.g, seeds, neighbor_type, layer_sizes)
    /\ UNCHANGED <<bg, ref, made, ret, hg, hret, drv, ah, us>>

\* what one pass of the loop of ConstructLayers can lead to: RandInt refuses
\* an empty range
ConstructLayerOutcomes(st, candidates) ==
    IF candidates = {} THEN {Aborted(st)}
    ELSE {ConstructLayer(st, Cardinality(candidates), n_occurrences) :
            n_occurrences \in LayerDraws(candidates, st.layer_sizes[st.i + 1])}

\* ConstructLayers: one pass of the loop over the layers
ConstructLayers ==
    /\ smp.pc = "layers"
    /\ smp' \in ConstructLayerOutcomes(smp,
                    CandidateSet(smp.orig_csr, smp.node_mapping, smp.curr, smp.next))
    /\ UNCHANGED <<bg, ref, made, ret, hg, hret, drv, ah, us>>

\* LayerUniformSample after ConstructLayers reversed its arrays:
\* ConstructFlows, the sanity checks and the return
ReturnLayerFlow ==
    /\ smp.pc = "flows"
    /\ smp' = [smp EXCEPT
                 !.pc = "done",
                 !.nf = ConstructFlows(smp.orig_csr, Reverse(smp.node_mapping),
                                       Reverse(smp.actl_layer_sizes), smp.edge_type)]
    /\ UNCHANGED <<bg, ref, made, ret, hg, hret, drv, ah, us>>

NextSampler ==
    \/ NeighborSample
    \/ SampleNeighbors
    \/ ReturnNodeFlow
    \/ LayerUniformSample
    \/ ConstructLayers
    \/ ReturnLayerFlow

SpecSampler == InitSampler /\ [][NextSampler]_vars

\* ------------------------------------------------------------------------
\* The ArrayHeap as a state machine: one heap, built once, then deleted from
\* and sampled
\* ------------------------------------------------------------------------
\* the weights of a heap: small whole numbers and the first float whose
\* successor is not a float
HeapWeights == (0..MaxHeapWeight) \cup {Pow2(FloatBits)}

HeapInputs == UNION {[1..n -> HeapWeights] : n \in 1..MaxHeapLen}

InitHeap ==
    /\ bg = NoView /\ ref = NoView /\ made = <<>> /\ ret = NoCall
    /\ hg = NoHetero /\ hret = NoCall
    /\ smp = NoSampler /\ drv = NoDriver /\ us = NoUniform
    /\ ah = [pc |-> "idle"]

\* ArrayHeap::ArrayHeap
HeapBuild ==
    /\ ah.pc = "idle"
    /\ \E prob \in HeapInputs :
          ah' = [pc |-> "built", prob |-> prob, h |-> ArrayHeap(prob),
                 deleted |-> {}, op |-> "build", before |-> {}, samples |-> <<>>]
    /\ UNCHANGED <<bg, ref, made, ret, hg, hret, smp, drv, us>>

\* ArrayHeap::Delete of an index of the weight vector
HeapDelete ==
    /\ ah.pc = "built"
    /\ \E index \in 0..(ah.h.vec_size - 1) :
          ah' = [ah EXCEPT !.h = ArrayHeap_Delete(ah.h, index),
                           !.deleted = @ \cup {index},
                           !.op = "delete", !.before = ah.deleted,
                           !.samples = <<>>]
    /\ UNCHANGED <<bg, ref, made, ret, hg, hret, smp, drv, us>>

\* ArrayHeap::Sample: the heap is left as it is
HeapSample ==
    /\ ah.pc = "built"
    /\ \E xi \in XiValues(ah.h) :
          ah' = [ah EXCEPT !.op = "sample", !.before = ah.deleted,
                           !.samples = <<ArrayHeap_Sample(ah.h, xi)>>]
    /\ UNCHANGED <<bg, ref, made, ret, hg, hret, smp, drv, us>>

\* the heap after the Delete calls of SampleWithoutReplacement
RECURSIVE HeapAfter(_, _)
HeapAfter(h, samples) ==
    IF samples = <<>> THEN h
    ELSE HeapAfter(ArrayHeap_Delete(h, Head(samples)), Tail(samples))

\* ArrayHeap::SampleWithoutReplacement of n samples, n at most the length of
\* the weight vector
HeapSampleWithoutReplacement ==
    /\ ah.pc = "built"
    /\ \E n \in 1..ah.h.vec_size :
          \E samples \in SampleWithoutReplacement(ah.h, n) :
              ah' = [ah EXCEPT !.h = HeapAfter(ah.h, samples),
                               !.deleted = @ \cup Image(samples),
                               !.op = "sample_n", !.before = ah.deleted,
                               !.samples = samples]
    /\ UNCHANGED <<bg, ref, made, ret, hg, hret, smp, drv, us>>

NextHeap ==
    \/ HeapBuild
    \/ HeapDelete
    \/ HeapSample
    \/ HeapSampleWithoutReplacement

SpecHeap == InitHeap /\ [][NextHeap]_vars

\* ------------------------------------------------------------------------
\* GetUniformSample as a state machine: one call, with the loop of
\* RandomSample taken one random draw at a time
\* ------------------------------------------------------------------------
\* the neighbor lists of a call: any vertex ids, and edge ids that are all
\* different, ascending or descending along the list
UniformInputs ==
    UNION {{[vid_list |-> vid_list, edge_id_list |-> edge_id_list] :
              vid_list \in [1..n -> 0..(UMaxV - 1)],
              edge_id_list \in {[i \in 1..n |-> i - 1], [i \in 1..n |-> n - i]}}
           : n \in 0..UMaxLen}

InitUniform ==
    /\ bg = NoView /\ ref = NoView /\ made = <<>> /\ ret = NoCall
    /\ hg = NoHetero /\ hret = NoCall
    /\ smp = NoSampler /\ drv = NoDriver /\ ah = NoHeap
    /\ us = [pc |-> "idle"]

\* faulty variant: the edge id is taken at the rank, not at the position
PickNeighbors_EdgeByRank(edge_id_list, vid_list, sorted_idxs) ==
    [out_ver |-> [i \in 1..Len(sorted_idxs) |-> vid_list[sorted_idxs[i] + 1]],
     out_edge |-> [i \in 1..Len(sorted_idxs) |-> edge_id_list[i]]]

\* the last loop of GetUniformSample: the entries at sorted_idxs are pushed
PickNeighbors(edge_id_list, vid_list, sorted_idxs) ==
    [out_ver |-> [i \in 1..Len(sorted_idxs) |-> vid_list[sorted_idxs[i] + 1]],
     out_edge |-> [i \in 1..Len(sorted_idxs) |-> edge_id_list[sorted_idxs[i] + 1]]]

\* the two CHECKs on sorted_idxs
SortedIdxsVerified(sorted_idxs, max_num_neighbor) ==
    /\ Len(sorted_idxs) = max_num_neighbor
    /\ \A i \in 2..Len(sorted_idxs) : sorted_idxs[i] > sorted_idxs[i - 1]

\* faulty variant: one position more than the list has is asked for
GetUniformSample_Begin_TooMany(edge_id_list, vid_list, ver_len, max_num_neighbor) ==
    [pc |-> "sampling", edge_id_list |-> edge_id_list, vid_list |-> vid_list,
     ver_len |-> ver_len, max_num_neighbor |-> max_num_neighbor,
     set_size |-> ver_len, num |-> ver_len + 1,
     sampled_idxs |-> {}, sorted_idxs |-> <<>>, out_ver |-> <<>>, out_edge |-> <<>>]

\* GetUniformSample up to the loop of RandomSample: a short list is copied
\* whole, a long one has num of its set_size positions drawn
GetUniformSample_Begin(edge_id_list, vid_list, ver_len, max_num_neighbor) ==
    IF ver_len <= max_num_neighbor
    THEN [pc |-> "done", edge_id_list |-> edge_id_list, vid_list |-> vid_list,
          ver_len |-> ver_len, max_num_neighbor |-> max_num_neighbor,
          set_size |-> 0, num |-> 0, sampled_idxs |-> {}, sorted_idxs |-> <<>>,
          out_ver |-> CopyNeighbors(edge_id_list, vid_list, 0, ver_len).ver,
          out_edge |-> CopyNeighbors(edge_id_list, vid_list, 0, ver_len).edge]
    ELSE [pc |-> "sampling", edge_id_list |-> edge_id_list, vid_list |-> vid_list,
          ver_len |-> ver_len, max_num_neighbor |-> max_num_neighbor,
          set_size |-> ver_len,
          num |-> IF ver_len > max_num_neighbor * 2 THEN max_num_neighbor
                  ELSE ver_len - max_num_neighbor,
          sampled_idxs |-> {}, sorted_idxs |-> <<>>,
          out_ver |-> <<>>, out_edge |-> <<>>]

\* GetUniformSample after RandomSample returned: sort, NegateArray in the
\* complement branch, the CHECKs and the output
GetUniformSample_End(st) ==
    LET sorted_idxs ==
            IF st.ver_len > st.max_num_neighbor * 2
            THEN SetToSortedSeq(st.sampled_idxs)
            ELSE NegateArray(SetToSortedSeq(st.sampled_idxs), st.ver_len)
    IN IF SortedIdxsVerified(sorted_idxs, st.max_num_neighbor)
       THEN [st EXCEPT !.pc = "done", !.sorted_idxs = sorted_idxs,
                !.out_ver = PickNeighbors(st.edge_id_list, st.vid_list, sorted_idxs).out_ver,
                !.out_edge = PickNeighbors(st.edge_id_list, st.vid_list, sorted_idxs).out_edge]
       ELSE [st EXCEPT !.pc = "aborted", !.sorted_idxs = sorted_idxs]

\* a call of GetUniformSample
UniformCall ==
    /\ us.pc = "idle"
    /\ \E in \in UniformInputs, max_num_neighbor \in 0..UMaxNeighbor :
          us' = GetUniformSample_Begin(in.edge_id_list, in.vid_list,
                                       Len(in.vid_list), max_num_neighbor)
    /\ UNCHANGED <<bg, ref, made, ret, hg, hret, smp, drv, ah>>

\* RandomSample: one pass of the while loop, RandInt(set_size) gives any
\* number of [0, set_size) and the hash set keeps one copy of it
RandomSampleInsert ==
    /\ us.pc = "sampling"
    /\ Cardinality(us.sampled_idxs) < us.num
    /\ \E r \in 0..(us.set_size - 1) :
          us' = [us EXCEPT !.sampled_idxs = @ \cup {r}]
    /\ UNCHANGED <<bg, ref, made, ret, hg, hret, smp, drv, ah>>

\* RandomSample leaves its loop and GetUniformSample finishes
UniformReturn ==
    /\ us.pc = "sampling"
    /\ Cardinality(us.sampled_idxs) >= us.num
    /\ us' = GetUniformSample_End(us)
    /\ UNCHANGED <<bg, ref, made, ret, hg, hret, smp, drv, ah>>

NextUniform ==
    \/ UniformCall
    \/ RandomSampleInsert
    \/ UniformReturn

SpecUniform == InitUniform /\ [][NextUniform]_vars

\* the random engine is fair: a number that is not yet in the hash set is
\* drawn sooner or later, and a call that can go on does
SpecUniformLive ==
    /\ InitUniform /\ [][NextUniform]_vars
    /\ WF_vars(UniformCall) /\ WF_vars(RandomSampleInsert) /\ WF_vars(UniformReturn)

\* ------------------------------------------------------------------------
\* The parallel batch driver: NeighborSamplingImpl and _CAPI_LayerSampling
\* ------------------------------------------------------------------------
MinOf(a, b) == IF a < b THEN a ELSE b

\* num_workers of the driver
NumWorkers(num_seeds, batch_start_id, batch_size, max_num_workers) ==
    MinOf(max_num_workers, ((num_seeds + batch_size - 1) \div batch_size) - batch_start_id)

\* faulty variant: the slices are counted from the first batch
WorkerSeeds_FromZero(seed_nodes, batch_start_id, batch_size, i) ==
    SubSeq(seed_nodes, i * batch_size + 1,
           MinOf(i * batch_size + batch_size, Len(seed_nodes)))

\* worker_seeds of worker i: the copy of seed_nodes[start, end)
WorkerSeeds(seed_nodes, batch_start_id, batch_size, i) ==
    SubSeq(seed_nodes, (batch_start_id + i) * batch_size + 1,
           MinOf((batch_start_id + i) * batch_size + batch_size, Len(seed_nodes)))

\* the shared graph: its edges, which CSR views it holds, and the memoized
\* multigraph flag ("unset" until first queried)
SharedGraph(g, in_csr, out_csr, is_multigraph) ==
    [g |-> g, in_csr |-> in_csr, out_csr |-> out_csr, is_multigraph |-> is_multigraph]

\* a write to the shared graph: what was written, and whether inside the
\* parallel section
GraphWrite(what, parallel) == [what |-> what, parallel |-> parallel]

\* BuildCsr: GetInCSR or GetOutCSR materializes the view when it is absent
BuildCsr(graph, neigh_type) ==
    IF neigh_type = "in" THEN [graph EXCEPT !.in_csr = TRUE]
    ELSE [graph EXCEPT !.out_csr = TRUE]

\* the write GetInCSR or GetOutCSR does to the graph when the view is absent
GetCsrWrites(graph, neigh_type, parallel) ==
    IF neigh_type = "in"
    THEN (IF graph.in_csr THEN {} ELSE {GraphWrite("in_csr", parallel)})
    ELSE (IF graph.out_csr THEN {} ELSE {GraphWrite("out_csr", parallel)})

\* the view a sampler asks for is present
ViewPresent(graph, neigh_type) ==
    IF neigh_type = "in" THEN graph.in_csr ELSE graph.out_csr

\* IsMultigraph of the shared graph: the flag is computed and memoized by
\* the first query
IsMultigraph(graph) ==
    IF graph.is_multigraph = "unset"
    THEN [graph EXCEPT !.is_multigraph = IF IsDupFree(graph.g.edges) THEN "no" ELSE "yes"]
    ELSE graph

IsMultigraphWrites(graph, parallel) ==
    IF graph.is_multigraph = "unset" THEN {GraphWrite("is_multigraph", parallel)} ELSE {}

DriverGraphs ==
    UNION {{SamplerGraph(n, edges) :
                edges \in SeqsUpTo((0..(n - 1)) \X (0..(n - 1)), DMaxE)}
           : n \in 1..DMaxV}

InitBatch ==
    /\ bg = NoView /\ ref = NoView /\ made = <<>> /\ ret = NoCall
    /\ hg = NoHetero /\ hret = NoCall
    /\ smp = NoSampler
    /\ ah = NoHeap /\ us = NoUniform
    /\ \E g \in DriverGraphs, in_csr \in BOOLEAN, out_csr \in BOOLEAN,
          memo \in BOOLEAN :
          drv = [pc |-> "idle",
                 graph |-> IF memo
                           THEN IsMultigraph(SharedGraph(g, in_csr, out_csr, "unset"))
                           ELSE SharedGraph(g, in_csr, out_csr, "unset"),
                 writes |-> {}]

NoWorker == [pc |-> "start", st |-> NoSampler]

\* the driver up to the parallel loop, for a sampler of the given kind
DriverForked(d, kind, seed_nodes, batch_start_id, batch_size, max_num_workers, neigh_type, num_workers) ==
    [pc |-> IF num_workers < 0 THEN "failed" ELSE "forked",
     graph |-> BuildCsr(d.graph, neigh_type),
     writes |-> d.writes \cup GetCsrWrites(d.graph, neigh_type, FALSE),
     kind |-> kind, seed_nodes |-> seed_nodes, batch_start_id |-> batch_start_id,
     batch_size |-> batch_size, max_num_workers |-> max_num_workers,
     neigh_type |-> neigh_type, num_workers |-> num_workers,
     workers |-> [i \in 1..num_workers |-> NoWorker],
     nflows |-> [i \in 1..num_workers |-> NoNodeFlow]]

\* NeighborSamplingImpl called by _CAPI_UniformSampling: num_workers,
\* BuildCsr, and the vector of num_workers node flows, whose allocation
\* fails for a negative num_workers
UniformSampling ==
    /\ drv.pc = "idle"
    /\ \E seed_nodes \in SeqsUpTo(0..(drv.graph.g.n - 1), DMaxSeeds),
          batch_start_id \in 0..MaxStart, batch_size \in 1..MaxBatch,
          max_num_workers \in 0..MaxWorkers, neigh_type \in {"in", "out"} :
          drv' = DriverForked(drv, "neighbor", seed_nodes, batch_start_id, batch_size,
                              max_num_workers, neigh_type,
                              NumWorkers(Len(seed_nodes), batch_start_id, batch_size,
                                         max_num_workers))
    /\ UNCHANGED <<bg, ref, made, ret, hg, hret, smp, ah, us>>

\* _CAPI_LayerSampling up to the parallel loop
LayerSampling ==
    /\ drv.pc = "idle"
    /\ \E seed_nodes \in SeqsUpTo(0..(drv.graph.g.n - 1), DMaxSeeds),
          batch_start_id \in 0..MaxStart, batch_size \in 1..MaxBatch,
          max_num_workers \in 0..MaxWorkers, neigh_type \in {"in", "out"} :
          drv' = DriverForked(drv, "layer", seed_nodes, batch_start_id, batch_size,
                              max_num_workers, neigh_type,
                              NumWorkers(Len(seed_nodes), batch_start_id, batch_size,
                                         max_num_workers))
    /\ UNCHANGED <<bg, ref, made, ret, hg, hret, smp, ah, us>>

\* the sampler call of a worker on its worker_seeds, up to its first step
WorkerCall(d, worker_seeds) ==
    IF d.kind = "neighbor"
    THEN SampleSubgraph_Begin(d.graph.g, worker_seeds, <<>>, FALSE, d.neigh_type,
                              DriverHops + 1, DriverNeighbor, FALSE)
    ELSE LayerUniformSample_Begin(d.graph.g, worker_seeds, d.neigh_type,
                                  [h \in 1..DriverHops |-> DriverNeighbor])

\* iteration i of the parallel loop: the copy of the seed slice and the call
\* of the sampler, which fetches the CSR view built before the loop
WorkerStart ==
    /\ drv.pc = "forked"
    /\ \E i \in 1..drv.num_workers :
          /\ drv.workers[i].pc = "start"
          /\ drv' = [drv EXCEPT
                       !.workers[i] = [pc |-> "sampling",
                                       st |-> WorkerCall(drv,
                                                WorkerSeeds(drv.seed_nodes, drv.batch_start_id,
                                                            drv.batch_size, i - 1))],
                       !.graph = BuildCsr(@, drv.neigh_type),
                       !.writes = @ \cup GetCsrWrites(drv.graph, drv.neigh_type, TRUE)]
    /\ UNCHANGED <<bg, ref, made, ret, hg, hret, smp, ah, us>>

\* the states one sampling step of a worker's sampler can lead to
WorkerStepOutcomes(st) ==
    IF st.pc = "sampling"
    THEN SampleVertexOutcomes(st, st.sub_vers[st.idx + 1][1], st.sub_vers[st.idx + 1][2])
    ELSE ConstructLayerOutcomes(st, CandidateSet(st.orig_csr, st.node_mapping,
                                                 st.curr, st.next))

\* a worker's sampler expands one vertex or draws one layer
WorkerSample ==
    /\ drv.pc = "forked"
    /\ \E i \in 1..drv.num_workers :
          /\ drv.workers[i].pc = "sampling"
          /\ drv.workers[i].st.pc \in {"sampling", "layers"}
          /\ \E st \in WorkerStepOutcomes(drv.workers[i].st) :
                drv' = [drv EXCEPT !.workers[i].st = st]
    /\ UNCHANGED <<bg, ref, made, ret, hg, hret, smp, ah, us>>

\* the NodeFlow a worker's sampler returns
WorkerNodeFlow(st) ==
    IF st.pc = "construct"
    THEN ConstructNodeFlow(st.neighbor_list, st.edge_list, st.layer_offsets,
                           st.sub_vers, st.neigh_pos, st.edge_type,
                           st.num_edges, st.num_hops)
    ELSE ConstructFlows(st.orig_csr, Reverse(st.node_mapping),
                        Reverse(st.actl_layer_sizes), st.edge_type)

\* the driver after the sampler of worker i returned and the result was
\* stored in nflows[i]; the neighbor sampler asks graph->IsMultigraph() on
\* the way
WorkerReturned(d, i) ==
    [d EXCEPT
        !.graph = IF d.kind = "neighbor" THEN IsMultigraph(@) ELSE @,
        !.writes = @ \cup (IF d.kind = "neighbor"
                           THEN IsMultigraphWrites(d.graph, TRUE) ELSE {}),
        !.workers[i] = [pc |-> "done",
                        st |-> [d.workers[i].st EXCEPT
                                  !.pc = "done",
                                  !.nf = WorkerNodeFlow(d.workers[i].st)]],
        !.nflows[i] = WorkerNodeFlow(d.workers[i].st)]

\* worker i memoizes the multigraph flag while another worker is still
\* running: the two may be in the unsynchronized initializer together
RacyFlagQuery(d, i) ==
    /\ d.kind = "neighbor"
    /\ d.graph.is_multigraph = "unset"
    /\ \E j \in 1..d.num_workers : j # i /\ d.workers[j].pc # "done"

\* a worker's sampler returns; a racy initialization of the flag may also
\* bring the call down
WorkerReturn ==
    /\ drv.pc = "forked"
    /\ \E i \in 1..drv.num_workers :
          /\ drv.workers[i].pc = "sampling"
          /\ drv.workers[i].st.pc \in {"construct", "flows"}
          /\ drv' \in {WorkerReturned(drv, i)}
                      \cup (IF RacyFlagQuery(drv, i)
                            THEN {[WorkerReturned(drv, i) EXCEPT !.pc = "failed"]}
                            ELSE {})
    /\ UNCHANGED <<bg, ref, made, ret, hg, hret, smp, ah, us>>

\* a failed CHECK inside a worker ends the whole call
WorkerAbort ==
    /\ drv.pc = "forked"
    /\ \E i \in 1..drv.num_workers :
          /\ drv.workers[i].pc = "sampling"
          /\ drv.workers[i].st.pc = "done"
          /\ drv' = [drv EXCEPT !.pc = "failed"]
    /\ UNCHANGED <<bg, ref, made, ret, hg, hret, smp, ah, us>>

\* the end of the parallel loop: nflows is returned
DriverReturn ==
    /\ drv.pc = "forked"
    /\ \A i \in 1..drv.num_workers : drv.workers[i].pc = "done"
    /\ drv' = [drv EXCEPT !.pc = "returned"]
    /\ UNCHANGED <<bg, ref, made, ret, hg, hret, smp, ah, us>>

NextBatch ==
    \/ UniformSampling
    \/ LayerSampling
    \/ WorkerStart
    \/ WorkerSample
    \/ WorkerReturn
    \/ WorkerAbort
    \/ DriverReturn

SpecBatch == InitBatch /\ [][NextBatch]_vars

\* ------------------------------------------------------------------------
\* Claims about the format views of a bipartite graph
\* ------------------------------------------------------------------------
ViewNames == {"coo", "out_csr", "in_csr"}

ViewOf(b, name) ==
    IF name = "coo" THEN b.coo ELSE IF name = "out_csr" THEN b.out_csr ELSE b.in_csr

\* C19: the set of format views of a bipartite graph only grows: it is
\* non-empty at construction, every operation leaves a view that is present
\* as it is (never replaced, rebuilt or removed), and so at least one of coo,
\* out_csr, in_csr is present in every reachable state.
C19_ViewsOnlyGrow ==
    /\ [](\E name \in ViewNames : Present(ViewOf(bg, name)))
    /\ [][\A name \in ViewNames :
             Present(ViewOf(bg, name)) => ViewOf(bg', name) = ViewOf(bg, name)]_vars

\* a graph built from one view holds all three after two materializations
C19_Witness ==
    /\ \A name \in ViewNames : Present(ViewOf(bg, name))
    /\ Len(made) = 3

\* has_edges_between(src_ids, dst_ids) has just been called on the graph
\* that held the views of held
HasEdgesBetweenCalled(held) ==
    /\ ret.op = "none" /\ ret'.op = "HasEdgesBetween"
    /\ held = {name \in ViewNames : Present(ViewOf(bg, name))}

\* C20 as stated: has_edges_between answers from the out-CSR whenever the
\* out-CSR is present, and from the in-CSR with src and dst swapped only when
\* the out-CSR is absent.
C20_PrefersOutCSR ==
    [][\A held \in SUBSET ViewNames :
          HasEdgesBetweenCalled(held) =>
              ret'.val.from = IF "out_csr" \in held THEN "out_csr" ELSE "in_csr"]_vars

\* C20 amended: has_edges_between answers from the in-CSR with src and dst
\* swapped whenever the in-CSR is present; otherwise it answers from the
\* out-CSR, which it materializes when absent. Either way the answer tells,
\* pair by pair, whether the graph has an edge src_ids[i] -> dst_ids[i].
C20_PrefersInCSR ==
    [][\A held \in SUBSET ViewNames :
          HasEdgesBetweenCalled(held) =>
              /\ ret'.val.from = IF "in_csr" \in held THEN "in_csr" ELSE "out_csr"
              /\ Present(ViewOf(bg', ret'.val.from))
              /\ "in_csr" \in held => bg' = bg
              /\ ret'.val.has = [i \in 1..Len(ret'.arg[1]) |->
                                   <<ret'.arg[1][i], ret'.arg[2][i]>> \in Image(ref.edges)]]_vars

\* a graph that holds both CSR views answered a query of one pair from the
\* in-CSR
C20_Witness ==
    /\ ret.op = "HasEdgesBetween"
    /\ ret.val.from = "in_csr"
    /\ Present(bg.out_csr) /\ Present(bg.in_csr)
    /\ Len(ret.arg[1]) >= 1

\* ------------------------------------------------------------------------
\* Claims about the NodeFlow of the samplers
\* ------------------------------------------------------------------------
\* a sampler has returned a NodeFlow
Returned == smp.pc = "done" /\ smp.nf.status = "ok"

NonDecreasing(s) == \A i \in 1..(Len(s) - 1) : s[i] <= s[i + 1]

\* the structural part of the NodeFlow invariants
NodeFlowShape(nf) ==
    /\ nf.layer_offsets[1] = 0
    /\ nf.layer_offsets[Len(nf.layer_offsets)] = Len(nf.node_mapping)
    /\ nf.flow_offsets[Len(nf.flow_offsets)] = Len(nf.edge_mapping)
    /\ NonDecreasing(nf.indptr)
    /\ nf.indptr[Len(nf.indptr)] = Len(nf.edge_mapping)

\* C12: every NodeFlow returned by the neighbor sampler or the layer-wise
\* sampler has layer_offsets[0] = 0, its last layer offset equal to
\* |node_mapping|, its last flow offset equal to |edge_mapping|, a
\* non-decreasing indptr ending in |edge_mapping|, and only vertex ids of
\* the source graph in node_mapping.
C12_NodeFlowInvariants ==
    Returned =>
        /\ NodeFlowShape(smp.nf)
        /\ \A i \in 1..Len(smp.nf.node_mapping) :
              smp.nf.node_mapping[i] \in 0..(smp.g.n - 1)

\* the row (position in node_mapping, 0-based) that holds flow edge j
FlowRowOfEdge(nf, j) ==
    CHOOSE r \in 0..(Len(nf.indptr) - 2) : nf.indptr[r + 1] < j /\ j <= nf.indptr[r + 2]

\* the original edge <<src, dst>> that flow edge j stands for: the vertex of
\* its row and the vertex of its column, ordered by edge_type
FlowEdgeEnds(nf, j) ==
    IF nf.edge_type = "in"
    THEN <<nf.node_mapping[nf.indices[j] + 1], nf.node_mapping[FlowRowOfEdge(nf, j) + 1]>>
    ELSE <<nf.node_mapping[FlowRowOfEdge(nf, j) + 1], nf.node_mapping[nf.indices[j] + 1]>>

\* C13: in every NodeFlow of the neighbor sampler, edge_mapping[j] is the id
\* of an original edge that joins the two original vertices of flow edge j,
\* or -1 when flow edge j is a self-loop on a vertex without a self-edge.
C13_EdgeMappingJoinsEndpoints ==
    (Returned /\ smp.kind = "neighbor") =>
        \A j \in 1..Len(smp.nf.edge_mapping) :
            \/ /\ smp.nf.edge_mapping[j] \in 0..(Len(smp.g.edges) - 1)
               /\ smp.g.edges[smp.nf.edge_mapping[j] + 1] = FlowEdgeEnds(smp.nf, j)
            \/ /\ smp.nf.edge_mapping[j] = -1
               /\ FlowEdgeEnds(smp.nf, j)[1] = FlowEdgeEnds(smp.nf, j)[2]
               /\ FlowEdgeEnds(smp.nf, j) \notin Image(smp.g.edges)

\* layer h (1-based, as returned) of the node_mapping of nf
NodeFlowLayer(nf, h) ==
    SubSeq(nf.node_mapping, nf.layer_offsets[h] + 1, nf.layer_offsets[h + 1])

\* C14: the neighbor sampler removes duplicate seeds, the seed layer (the
\* last layer of node_mapping) lists the distinct seeds in the order of their
\* first occurrence in the caller's array, unsorted, and every other layer is
\* sorted by original vertex id.
C14_SeedLayerOrder ==
    (Returned /\ smp.kind = "neighbor") =>
        /\ NodeFlowLayer(smp.nf, Len(smp.nf.layer_offsets) - 1) = FirstSeen(smp.seeds)
        /\ \A h \in 1..(Len(smp.nf.layer_offsets) - 2) :
              NonDecreasing(NodeFlowLayer(smp.nf, h))

\* seeds given in descending order stay so, above a layer of two vertices
\* that were queued in descending order
C14_Witness ==
    /\ Returned /\ smp.kind = "neighbor"
    /\ smp.seeds = <<1, 0>>
    /\ smp.nf.node_mapping = <<0, 1, 1, 0>>
    /\ smp.sub_vers[3][1] = 1 /\ smp.sub_vers[4][1] = 0

\* the loop body of SampleSubgraph has just run for a vertex of the graph
Expanded ==
    /\ smp.pc # "idle" /\ smp.kind = "neighbor"
    /\ smp.last.dst_id \in 0..(smp.g.n - 1)

\* the neighbors and the edge ids of vertex d in the order of the CSR
CsrNeighbors(csr, d) == [i \in 1..Len(RowSlice(csr, d)) |-> csr.indices[RowSlice(csr, d)[i]]]

CsrEdgeIds(csr, d) == [i \in 1..Len(RowSlice(csr, d)) |-> csr.data[RowSlice(csr, d)[i]]]

\* C15: when expand_factor is at least the degree of the destination vertex,
\* the neighbor sampler, uniform or weighted, keeps all its neighbors and
\* edge ids, unchanged and in CSR order, and consults no random number.
C15_KeepAllNeighbors ==
    (Expanded /\ smp.last.ver_len <= smp.num_neighbor) =>
        /\ smp.last.ver_len = Len(CsrNeighbors(smp.orig_csr, smp.last.dst_id))
        /\ smp.last.out.ver = CsrNeighbors(smp.orig_csr, smp.last.dst_id)
        /\ smp.last.out.edge = CsrEdgeIds(smp.orig_csr, smp.last.dst_id)
        /\ ~smp.last.out.rng

\* a weighted run kept the two neighbors 1, 0 of a vertex in CSR order
C15_Witness ==
    /\ Expanded /\ smp.weighted
    /\ smp.last.ver_len = 2 /\ smp.num_neighbor = 2
    /\ smp.last.out.ver = <<1, 0>>

\* vertex d has a self-edge d -> d in the graph
HasSelfEdge(g, d) == <<d, d>> \in Image(g.edges)

\* C16 as stated: with add_self_loop, nothing is appended for a vertex that
\* has a self-edge in the graph, and a vertex without one is appended once
\* with edge id -1.
C16_SelfLoopByGraph ==
    (Expanded /\ smp.add_self_loop) =>
        IF HasSelfEdge(smp.g, smp.last.dst_id)
        THEN smp.last.src = smp.last.out.ver /\ smp.last.edge = smp.last.out.edge
        ELSE /\ smp.last.src = Append(smp.last.out.ver, smp.last.dst_id)
             /\ smp.last.edge = Append(smp.last.out.edge, -1)

\* C16 amended: with add_self_loop, nothing is appended for a vertex that is
\* among its sampled neighbors; otherwise the vertex is appended once, with
\* the id of a self-edge of the graph when it has one and with -1 when it
\* has none.
C16_SelfLoopBySample ==
    (Expanded /\ smp.add_self_loop) =>
        IF smp.last.dst_id \in Image(smp.last.out.ver)
        THEN smp.last.src = smp.last.out.ver /\ smp.last.edge = smp.last.out.edge
        ELSE /\ smp.last.src = Append(smp.last.out.ver, smp.last.dst_id)
             /\ Len(smp.last.edge) = Len(smp.last.out.edge) + 1
             /\ SubSeq(smp.last.edge, 1, Len(smp.last.out.edge)) = smp.last.out.edge
             /\ IF HasSelfEdge(smp.g, smp.last.dst_id)
                THEN /\ smp.last.edge[Len(smp.last.edge)] \in 0..(Len(smp.g.edges) - 1)
                     /\ smp.g.edges[smp.last.edge[Len(smp.last.edge)] + 1]
                            = <<smp.last.dst_id, smp.last.dst_id>>
                ELSE smp.last.edge[Len(smp.last.edge)] = -1

\* a vertex whose self-edge was not sampled got the self-loop appended with
\* the id of the self-edge
C16_Witness ==
    /\ Expanded /\ smp.add_self_loop /\ ~smp.weighted
    /\ HasSelfEdge(smp.g, smp.last.dst_id)
    /\ smp.last.appended
    /\ smp.last.edge[Len(smp.last.edge)] >= 0

\* ------------------------------------------------------------------------
\* Claims about the batch driver
\* ------------------------------------------------------------------------
\* the least q with q * b >= a
CeilDiv(a, b) == CHOOSE q \in 0..a : q * b >= a /\ (q = 0 \/ (q - 1) * b < a)

\* the seed slice [lo, hi) the claim gives to worker i
SliceOfWorker(S, batch_start_id, batch_size, i) ==
    [k \in 1..(MinOf((batch_start_id + i + 1) * batch_size, Len(S))
               - (batch_start_id + i) * batch_size) |->
        S[(batch_start_id + i) * batch_size + k]]

\* C17: the batch driver returns exactly num_workers = min(max_num_workers,
\* ceil(|S| / batch_size) - batch_start_id) node flows, and nflows[i] is the
\* result of the sampler on the seed slice S[(batch_start_id + i) *
\* batch_size .. min((batch_start_id + i + 1) * batch_size, |S|)), in
\* whatever order the workers run or finish. The seed layer of the flow shows
\* the slice: its distinct seeds for the neighbor sampler, the slice reversed
\* for the layer sampler.
C17_BatchSlices ==
    (drv.pc = "returned") =>
        /\ Len(drv.nflows) = MinOf(drv.max_num_workers,
                                   CeilDiv(Len(drv.seed_nodes), drv.batch_size)
                                   - drv.batch_start_id)
        /\ \A i \in 0..(Len(drv.nflows) - 1) :
              /\ drv.workers[i + 1].st.seeds
                     = SliceOfWorker(drv.seed_nodes, drv.batch_start_id, drv.batch_size, i)
              /\ drv.nflows[i + 1] = drv.workers[i + 1].st.nf
              /\ drv.nflows[i + 1].status = "ok"
              /\ NodeFlowLayer(drv.nflows[i + 1], Len(drv.nflows[i + 1].layer_offsets) - 1)
                     = IF drv.kind = "neighbor"
                       THEN FirstSeen(SliceOfWorker(drv.seed_nodes, drv.batch_start_id,
                                                    drv.batch_size, i))
                       ELSE Reverse(SliceOfWorker(drv.seed_nodes, drv.batch_start_id,
                                                  drv.batch_size, i))

\* two workers of a call that starts at batch 1 returned the flows of the
\* slices [1] and [0] of the seeds 0, 1, 0
C17_Witness ==
    /\ drv.pc = "returned"
    /\ drv.seed_nodes = <<0, 1, 0>> /\ drv.batch_start_id = 1 /\ drv.batch_size = 1
    /\ Len(drv.nflows) = 2
    /\ drv.workers[1].st.seeds = <<1>> /\ drv.workers[2].st.seeds = <<0>>
    /\ drv.nflows[1].status = "ok" /\ drv.nflows[2].status = "ok"

\* C18: during parallel sampling the shared graph is read-only: the CSR view
\* of neigh_type is materialized before any worker starts, and no worker
\* writes the lazily initialized state of the graph (format views, memoized
\* flags) inside the parallel section.
C18_GraphReadOnly ==
    /\ drv.pc \in {"forked", "returned"} => ViewPresent(drv.graph, drv.neigh_type)
    /\ \A w \in drv.writes : ~w.parallel

\* ------------------------------------------------------------------------
\* Claims about the ArrayHeap
\* ------------------------------------------------------------------------
\* the weight vector with the deleted leaves at 0
LiveWeights(prob, deleted) ==
    [i \in 1..Len(prob) |-> IF (i - 1) \in deleted THEN 0 ELSE prob[i]]

\* C21: after build(weights) and after any sequence of delete(i) calls, every
\* internal node of the heap holds the sum of its two children, the root
\* holds the total weight of the leaves that were not deleted, and every
\* deleted leaf and every padding leaf (index >= n) holds 0.  The sums are
\* taken as the float sums a build over the remaining weights computes.
C21_HeapSums ==
    ah.pc = "built" =>
        /\ \A j \in 1..(ah.h.limit - 1) :
              ah.h.heap[j] = Float(ah.h.heap[2 * j] + ah.h.heap[2 * j + 1])
        /\ ah.h.heap[1] = ArrayHeap(LiveWeights(ah.prob, ah.deleted)).heap[1]
        /\ \A i \in 0..(ah.h.limit - 1) :
              (i \in ah.deleted \/ i >= ah.h.vec_size) => ah.h.heap[ah.h.limit + i] = 0

\* C22: sample_k_without_replacement(k), k <= n, returns k pairwise distinct
\* indices of [0, n), and sample() never returns an index deleted before it.
C22_DistinctValidSamples ==
    /\ (ah.pc = "built" /\ ah.op = "sample_n") =>
          /\ \A i \in 1..Len(ah.samples) :
                ah.samples[i] >= 0 /\ ah.samples[i] < ah.h.vec_size
          /\ \A i, j \in 1..Len(ah.samples) :
                i # j => ah.samples[i] # ah.samples[j]
    /\ (ah.pc = "built" /\ ah.op = "sample") =>
          ah.samples[1] \notin ah.before

\* ------------------------------------------------------------------------
\* Claims about GetUniformSample
\* ------------------------------------------------------------------------
\* the strictly increasing sequences of k positions of a list of n entries
IncreasingPositions(n, k) ==
    {SetToSortedSeq(S) : S \in {T \in SUBSET (0..(n - 1)) : Cardinality(T) = k}}

\* C23: for a neighbor list longer than k, uniform sampling (pick-k branch
\* and complement branch alike) outputs exactly k neighbors, taken from k
\* strictly increasing, pairwise distinct positions of the list, and output
\* vertex i and output edge id i come from the same position.
C23_UniformPositions ==
    (us.pc \in {"done", "aborted"} /\ us.ver_len > us.max_num_neighbor) =>
        /\ us.pc = "done"
        /\ Len(us.out_ver) = us.max_num_neighbor
        /\ Len(us.out_edge) = us.max_num_neighbor
        /\ \E idxs \in IncreasingPositions(us.ver_len, us.max_num_neighbor) :
              \A i \in 1..us.max_num_neighbor :
                  /\ us.out_ver[i] = us.vid_list[idxs[i] + 1]
                  /\ us.out_edge[i] = us.edge_id_list[idxs[i] + 1]

\* a call of the complement branch returned the second and the fourth of four
\* neighbors that are told apart by vertex and by edge id
C23_Witness ==
    /\ us.pc = "done"
    /\ us.ver_len = 4 /\ us.max_num_neighbor = 2
    /\ us.sorted_idxs = <<1, 3>>
    /\ us.vid_list[2] # us.vid_list[1]
    /\ us.edge_id_list[1] = 3
    /\ us.out_edge = <<2, 0>>

\* ------------------------------------------------------------------------
\* Claims about the layer-wise sampler
\* ------------------------------------------------------------------------
ReturnedLayerFlow == Returned /\ smp.kind = "layer"

\* the neighbors of vertex v in the graph g: the sources of its in-edges or
\* the destinations of its out-edges
GraphNeighbors(g, edge_type, v) ==
    {g.edges[e][IF edge_type = "in" THEN 1 ELSE 2] :
        e \in {x \in 1..Len(g.edges) : g.edges[x][IF edge_type = "in" THEN 2 ELSE 1] = v}}

\* the layers 0 .. H - 1 of the NodeFlow nf are duplicate-free, drawn from
\* the neighbors of the next layer, and no larger than asked for
SampledLayers(nf, g, edge_type, layer_sizes) ==
    \A h \in 1..Len(layer_sizes) :
        /\ IsDupFree(NodeFlowLayer(nf, h))
        /\ Image(NodeFlowLayer(nf, h)) \subseteq
              UNION {GraphNeighbors(g, edge_type, v) : v \in Image(NodeFlowLayer(nf, h + 1))}
        /\ Len(NodeFlowLayer(nf, h)) <= layer_sizes[h]

\* C24 as stated: every non-seed layer of the layer-wise sampler is a
\* duplicate-free subset of the candidate set (the neighbors of the vertices
\* of the next layer toward the seeds), flow layer h holds at most
\* layer_sizes[h] vertices, and the seed layer is the caller's seed list
\* unchanged.
C24_LayersSeedsUnchanged ==
    ReturnedLayerFlow =>
        /\ Len(smp.nf.layer_offsets) = Len(smp.layer_sizes) + 2
        /\ SampledLayers(smp.nf, smp.g, smp.edge_type, smp.layer_sizes)
        /\ NodeFlowLayer(smp.nf, Len(smp.layer_sizes) + 1) = smp.seeds

\* C24 amended: as above, but the seed layer is the caller's seed list in
\* reverse order, repeated seeds kept.
C24_LayersSeedsReversed ==
    ReturnedLayerFlow =>
        /\ Len(smp.nf.layer_offsets) = Len(smp.layer_sizes) + 2
        /\ SampledLayers(smp.nf, smp.g, smp.edge_type, smp.layer_sizes)
        /\ NodeFlowLayer(smp.nf, Len(smp.layer_sizes) + 1) = Reverse(smp.seeds)

\* a layer flow with two sampled layers from two different seeds, its middle
\* layer smaller than the size asked for
C24_Witness ==
    /\ ReturnedLayerFlow
    /\ Len(smp.layer_sizes) = 2
    /\ smp.seeds = <<0, 1>>
    /\ Len(NodeFlowLayer(smp.nf, 2)) < smp.layer_sizes[2]
    /\ Len(NodeFlowLayer(smp.nf, 1)) = 2

\* the <<source flow position, edge id>> pairs row p of the NodeFlow should
\* hold when its source layer is layer h: one per edge of the graph between
\* the vertex of p and a vertex of layer h
ExpectedRowPairs(nf, g, edge_type, h, p) ==
    {<<q - 1, e - 1>> :
        <<q, e>> \in {x \in ((nf.layer_offsets[h] + 1)..nf.layer_offsets[h + 1])
                              \X (1..Len(g.edges)) :
                         /\ g.edges[x[2]][IF edge_type = "in" THEN 2 ELSE 1]
                               = nf.node_mapping[p]
                         /\ g.edges[x[2]][IF edge_type = "in" THEN 1 ELSE 2]
                               = nf.node_mapping[x[1]]}}

\* the entries of row p (a flow position, from 1) of the NodeFlow
FlowRowEntries(nf, p) == (nf.indptr[p] + 1)..nf.indptr[p + 1]

\* C25: in the layer-wise sampler, for each adjacent layer pair (L_i, L_i+1)
\* and each destination d of L_i+1, the flow CSR row of d holds exactly one
\* entry per CSR neighbor entry of d in the original graph whose neighbor is
\* in L_i, sorted ascending by the flow position of the source, and the
\* parallel edge_mapping entry is the edge id of that original entry.
C25_FlowRows ==
    ReturnedLayerFlow =>
        \A h \in 1..Len(smp.layer_sizes) :
            \A p \in (smp.nf.layer_offsets[h + 1] + 1)..smp.nf.layer_offsets[h + 2] :
                /\ \A j \in FlowRowEntries(smp.nf, p) :
                      (j + 1) \in FlowRowEntries(smp.nf, p)
                          => smp.nf.indices[j] <= smp.nf.indices[j + 1]
                /\ {<<smp.nf.indices[j], smp.nf.edge_mapping[j]>> :
                        j \in FlowRowEntries(smp.nf, p)}
                      = ExpectedRowPairs(smp.nf, smp.g, smp.edge_type, h, p)
                /\ Cardinality(FlowRowEntries(smp.nf, p))
                      = Cardinality(ExpectedRowPairs(smp.nf, smp.g, smp.edge_type, h, p))

\* a row with two sources whose edges stand in the other order in the graph
C25_Witness ==
    /\ ReturnedLayerFlow
    /\ \E p \in 1..(Len(smp.nf.indptr) - 1) :
          /\ Cardinality(FlowRowEntries(smp.nf, p)) = 2
          /\ smp.nf.indices[smp.nf.indptr[p] + 1] < smp.nf.indices[smp.nf.indptr[p] + 2]
          /\ smp.nf.edge_mapping[smp.nf.indptr[p] + 1]
                > smp.nf.edge_mapping[smp.nf.indptr[p] + 2]

\* ------------------------------------------------------------------------
\* Claims about the arguments of the batch driver
\* ------------------------------------------------------------------------
\* C28: for every driver input with batch_size >= 1, batch_start_id >= 0 and
\* max_num_workers >= 0, the computed num_workers is not negative and every
\* worker i of [0, num_workers) gets a seed slice [start, end) with
\* 0 <= start < end <= |S|.
C28_WorkersAndSlices ==
    (drv.pc # "idle" /\ drv.batch_size >= 1 /\ drv.batch_start_id >= 0
        /\ drv.max_num_workers >= 0) =>
        /\ drv.num_workers >= 0
        /\ \A i \in 0..(drv.num_workers - 1) :
              /\ 0 <= (drv.batch_start_id + i) * drv.batch_size
              /\ (drv.batch_start_id + i) * drv.batch_size
                    < MinOf((drv.batch_start_id + i) * drv.batch_size + drv.batch_size,
                            Len(drv.seed_nodes))
              /\ MinOf((drv.batch_start_id + i) * drv.batch_size + drv.batch_size,
                       Len(drv.seed_nodes)) <= Len(drv.seed_nodes)

EdgesAtCreation ==
    IF made[1] = "coo" THEN COO_Edges(bg.coo, "") ELSE CSR_Edges(bg.out_csr, "")

\* the (src, dst, eid) triples of an edge array
EdgeArrayTriples(e) == {<<e.src[i], e.dst[i], e.id[i]>> : i \in 1..Len(e.id)}

\* C27 (as stated): edges(order = "") returns the same (src, dst, eid) sequence,
\* in the same order, whichever queries materialized further views before it:
\* every call returns what a call on the fresh bipartite returns.
C27_EdgesSameOrder ==
    (ret.op = "Edges" /\ ret.arg = <<"">>) => ret.val = EdgesAtCreation

\* C27 (amended): edges(order = "") returns every edge of the bipartite once,
\* with its endpoints and id, whichever views were materialized before it; only
\* the order of the triples follows the view that is read.
C27_EdgesSameTriples ==
    (ret.op = "Edges" /\ ret.arg = <<"">>) =>
        /\ Len(ret.val.src) = NumRefEdges
        /\ Len(ret.val.dst) = NumRefEdges
        /\ Len(ret.val.id) = NumRefEdges
        /\ EdgeArrayTriples(ret.val) = RefTriples

\* edges(order = "") read from an in-CSR that an earlier query materialized,
\* in another order than the fresh bipartite gave
C27_Witness ==
    /\ ret.op = "Edges" /\ ret.arg = <<"">>
    /\ Present(bg.in_csr)
    /\ ret.val # EdgesAtCreation
    /\ \E i \in 1..Len(ret.val.id) : ret.val.src[i] # ret.val.dst[i]

\* ------------------------------------------------------------------------
\* The neighbor sampler: sub_vers and neigh_pos after the per-layer sorts
\* ------------------------------------------------------------------------
\* SampleSubgraph has called ConstructNodeFlow: the loop over the layers ran
\* to its end and the call is over
ConstructNodeFlowCalled ==
    /\ smp.pc = "done" /\ smp.kind = "neighbor"
    /\ smp.layer_id >= smp.num_hops

\* sub_vers and neigh_pos as the sorts of ConstructNodeFlow leave them
SortedSubVers ==
    SortLayers(smp.sub_vers, smp.layer_offsets, smp.num_hops - 1, VerKeys(smp.sub_vers))

SortedNeighPos ==
    SortLayers(smp.neigh_pos, smp.layer_offsets, smp.num_hops - 2, PosKeys(smp.neigh_pos))

\* C29: in every run of the neighbor sampler that reaches ConstructNodeFlow,
\* after the per-layer sorts neigh_pos[i].id equals sub_vers[i].first for every
\* index i below the start of the deepest layer and sub_vers[i].second is the
\* layer of i, so that the call does not stop at a CHECK.
C29_BookkeepingAligned ==
    ConstructNodeFlowCalled =>
        /\ Len(smp.neigh_pos) = smp.layer_offsets[smp.num_hops]
        /\ Len(smp.sub_vers) = smp.layer_offsets[smp.num_hops + 1]
        /\ \A L \in 0..(smp.num_hops - 1) :
              \A i \in (LayerLo(smp.layer_offsets, L) + 1)..LayerHi(smp.layer_offsets, L) :
                  /\ SortedSubVers[i][2] = L
                  /\ L <= smp.num_hops - 2 => SortedNeighPos[i].id = SortedSubVers[i][1]
        /\ smp.nf.status = "ok"

\* a run with two hops whose seed layer is in descending order and whose
\* middle layer was queued in descending order, so that the sorts moved the
\* middle layer of both arrays and left the seed layer of both alone
C29_Witness ==
    /\ ConstructNodeFlowCalled
    /\ smp.num_hops = 3
    /\ smp.layer_offsets[2] = 2 /\ smp.layer_offsets[3] = 4
    /\ smp.sub_vers[1][1] > smp.sub_vers[2][1]
    /\ smp.sub_vers[3][1] > smp.sub_vers[4][1]
    /\ SortedNeighPos # smp.neigh_pos
    /\ SortedSubVers # smp.sub_vers

\* ------------------------------------------------------------------------
\* The flows of a NodeFlow join adjacent layers
\* ------------------------------------------------------------------------
\* the rows (flow vertex ids) of layer h of a NodeFlow
LayerRows(nf, h) == nf.layer_offsets[h + 1]..(nf.layer_offsets[h + 2] - 1)

\* the positions (from 1) of the flow edges of row r
RowEdges(nf, r) == (nf.indptr[r + 1] + 1)..nf.indptr[r + 2]

\* C30: in every NodeFlow returned by either sampler the rows of layer 0 are
\* empty, every column index of a row of layer h >= 1 is a vertex of layer
\* h - 1, and the edges of the rows of layer h are the range
\* [flow_offsets[h-1], flow_offsets[h]) of edge_mapping.
C30_FlowsJoinAdjacentLayers ==
    Returned =>
        /\ Len(smp.nf.flow_offsets) = Len(smp.nf.layer_offsets) - 1
        /\ Len(smp.nf.indptr) = Len(smp.nf.node_mapping) + 1
        /\ Len(smp.nf.indices) = Len(smp.nf.edge_mapping)
        /\ \A r \in LayerRows(smp.nf, 0) : RowEdges(smp.nf, r) = {}
        /\ \A h \in 1..(Len(smp.nf.layer_offsets) - 2) :
              /\ \A r \in LayerRows(smp.nf, h) :
                    \A j \in RowEdges(smp.nf, r) :
                        smp.nf.indices[j] \in LayerRows(smp.nf, h - 1)
              /\ smp.nf.indptr[smp.nf.layer_offsets[h + 1] + 1] = smp.nf.flow_offsets[h]
              /\ smp.nf.indptr[smp.nf.layer_offsets[h + 2] + 1] = smp.nf.flow_offsets[h + 1]
              /\ smp.nf.flow_offsets[h + 1] <= Len(smp.nf.edge_mapping)

\* a NodeFlow of the neighbor sampler with three layers, edges in both flows
\* and a seed-layer row whose column is not the first vertex of the flow
C30_Witness ==
    /\ Returned /\ smp.kind = "neighbor"
    /\ Len(smp.nf.layer_offsets) = 4
    /\ smp.nf.flow_offsets[2] > 0
    /\ smp.nf.flow_offsets[3] > smp.nf.flow_offsets[2]
    /\ \E r \in LayerRows(smp.nf, 2) :
          \E j \in RowEdges(smp.nf, r) : smp.nf.indices[j] > smp.nf.layer_offsets[2]

====
